---- MODULE Spec2Model ----
(***************************************************************************)
(* Transactional outbox of the FlowCatalyst TypeScript SDK: the TSID       *)
(* generator, the three message DTO builders, the OutboxManager and the    *)
(* driver it hands its messages to.                                        *)
(*                                                                         *)
(* Data representation                                                     *)
(*   - a JavaScript string is the sequence of its UTF-16 code units;       *)
(*     S("abc") writes an ASCII literal;                                   *)
(*   - an integer that does not fit 31 bits (Date.now(), the BigInt of the  *)
(*     TSID) is a little-endian sequence of BigWidth base-32 digits, read   *)
(*     as a two's complement number of 5 * BigWidth bits;                  *)
(*   - a JavaScript value is a tagged record (Null, Str, Num, Bool, Obj,   *)
(*     Arr); an object keeps its entries in insertion order.               *)
(***************************************************************************)
EXTENDS Integers, Sequences, FiniteSets, TLC

(***************************************************************************)
(* Strings                                                                 *)
(***************************************************************************)
\* The printable ASCII characters 32..95 and 97..126 (a backquote, 96, cannot
\* be written in a literal and is not used).
AsciiLow == " !\"#$%&'()*+,-./0123456789:;<=>?@ABCDEFGHIJKLMNOPQRSTUVWXYZ[\\]^_"

AsciiHigh == "abcdefghijklmnopqrstuvwxyz{|}~"

\* The code unit of a one-character ASCII literal.
Ord(c) ==
    IF \E i \in 1..Len(AsciiLow) : SubSeq(AsciiLow, i, i) = c
    THEN 31 + (CHOOSE i \in 1..Len(AsciiLow) : SubSeq(AsciiLow, i, i) = c)
    ELSE 96 + (CHOOSE i \in 1..Len(AsciiHigh) : SubSeq(AsciiHigh, i, i) = c)

\* The sequence f with every element evaluated once: a function expression is
\* otherwise evaluated again at each application.
Tuple(f) == f \o <<>>

\* The code units of an ASCII literal.
S(lit) == Tuple([i \in 1..Len(lit) |-> Ord(SubSeq(lit, i, i))])

\* The literals the formatting code below emits, as strings.
Lit ==
    [ quote |-> S("\""), comma |-> S(","), colon |-> S(":"), lbrace |-> S("{"),
      rbrace |-> S("}"), lbracket |-> S("["), rbracket |-> S("]"), minus |-> S("-"),
      dot |-> S("."), T |-> S("T"), Z |-> S("Z"), null |-> S("null"), true |-> S("true"),
      false |-> S("false"), escQuote |-> S("\\\""), escBackslash |-> S("\\\\"),
      escB |-> S("\\b"), escF |-> S("\\f"), escN |-> S("\\n"), escR |-> S("\\r"),
      escT |-> S("\\t"), escU |-> S("\\u"), specVersion |-> S("1.0"),
      json |-> S("application/json") ]

\* The concatenation of the strings parts[lo], ..., parts[hi]
RECURSIVE ConcatRange(_, _, _)
ConcatRange(parts, lo, hi) ==
    IF lo > hi THEN <<>>
    ELSE IF lo = hi THEN parts[lo]
    ELSE LET mid == (lo + hi) \div 2
         IN  ConcatRange(parts, lo, mid) \o ConcatRange(parts, mid + 1, hi)

Concat(ss) == ConcatRange(ss, 1, Len(ss))

\* The upper case of one code unit, by the Unicode case mappings toUpperCase
\* follows: the ASCII and Latin-1 letters, and of the special casings the
\* sharp s (SS), the long s (S), the dotless i (I) and the ligatures ff (FF)
\* and st (ST); every other code unit is left as it is.
UpperOfUnit(c) ==
    IF c >= 97 /\ c <= 122 THEN <<c - 32>>
    ELSE IF c = 223 THEN <<83, 83>>
    ELSE IF c >= 224 /\ c <= 254 /\ c # 247 THEN <<c - 32>>
    ELSE IF c = 305 THEN <<73>>
    ELSE IF c = 383 THEN <<83>>
    ELSE IF c = 64256 THEN <<70, 70>>
    ELSE IF c = 64262 THEN <<83, 84>>
    ELSE <<c>>

\* String.prototype.toUpperCase: the result may be longer than the string
ToUpperCase(s) == Concat([i \in 1..Len(s) |-> UpperOfUnit(s[i])])

\* Lexicographic comparison of two strings by code unit (the < of JavaScript).
RECURSIVE StrLess(_, _)
StrLess(a, b) ==
    IF b = <<>> THEN FALSE
    ELSE IF a = <<>> THEN TRUE
    ELSE IF a[1] # b[1] THEN a[1] < b[1]
    ELSE StrLess(Tail(a), Tail(b))

(***************************************************************************)
(* Wide integers: BigWidth base-32 digits, least significant first         *)
(***************************************************************************)
TSID_LENGTH == 13

\* One digit more than a TSID has, so that the sign of a BigInt is kept.
BigWidth == TSID_LENGTH + 1

BigZero == Tuple([i \in 1..BigWidth |-> 0])

\* A small non-negative integer as a wide integer.
BigOfNat(n) == Tuple([i \in 1..BigWidth |-> IF i <= 7 THEN (n \div (32 ^ (i - 1))) % 32 ELSE 0])

\* a + b modulo 32^BigWidth; carry[i] is the carry into digit i
BigAdd(a, b) ==
    LET carry[i \in 1..BigWidth] ==
            IF i = 1 THEN 0 ELSE (a[i - 1] + b[i - 1] + carry[i - 1]) \div 32
    IN  Tuple([i \in 1..BigWidth |-> (a[i] + b[i] + carry[i]) % 32])

\* the two's complement negation
BigNeg(a) == BigAdd(Tuple([i \in 1..BigWidth |-> 31 - a[i]]), BigOfNat(1))

\* a - b modulo 32^BigWidth
BigSub(a, b) == BigAdd(a, BigNeg(b))

\* a * m modulo 32^BigWidth, for 0 <= m < 2^25
BigMulSmall(a, m) ==
    LET carry[i \in 1..BigWidth] ==
            IF i = 1 THEN 0 ELSE (a[i - 1] * m + carry[i - 1]) \div 32
    IN  Tuple([i \in 1..BigWidth |-> (a[i] * m + carry[i]) % 32])

\* The integer hi * 10^6 + lo, as decimal literals are written in the source.
BigOfParts(hi, lo) == BigAdd(BigMulSmall(BigOfNat(hi), 1000000), BigOfNat(lo))

\* The sign of the two's complement reading.
BigIsNegative(a) == a[BigWidth] >= 16

\* a < b as signed numbers
BigLess(a, b) ==
    IF BigIsNegative(a) # BigIsNegative(b) THEN BigIsNegative(a)
    ELSE \E i \in 1..BigWidth : a[i] < b[i] /\ \A j \in (i + 1)..BigWidth : a[j] = b[j]

\* <<quotient, remainder>> of a non-negative a by a small d (0 < d < 2^25), by
\* long division from the most significant digit; part[i] is the partial
\* dividend at digit i
BigDivMod(a, d) ==
    LET part[i \in 1..BigWidth] ==
            (IF i = BigWidth THEN 0 ELSE (part[i + 1] % d) * 32) + a[i]
    IN  <<Tuple([i \in 1..BigWidth |-> part[i] \div d]), part[1] % d>>

\* A wide integer known to be small, as an integer.
BigToNat(a) ==
    LET val[i \in 1..BigWidth] ==
            IF \A j \in i..BigWidth : a[j] = 0 THEN 0
            ELSE a[i] + 32 * (IF i = BigWidth THEN 0 ELSE val[i + 1])
    IN  val[1]

(***************************************************************************)
(* TSID generator (tsid.js)                                                *)
(***************************************************************************)
CROCKFORD_ALPHABET == S("0123456789ABCDEFGHJKMNPQRSTVWXYZ")

RANDOM_BITS == 22

RANDOM_MASK == (2 ^ RANDOM_BITS) - 1

\* Custom epoch: 2020-01-01T00:00:00Z, 1577836800000
CUSTOM_EPOCH == BigOfParts(1577836, 800000)

\* a << bits, for a BigInt
BigShiftLeft(a, bits) == BigMulSmall(a, 2 ^ bits)

\* x | y on two base-32 digits
DigitOr(x, y) ==
    LET bit(k) == IF (x \div (2 ^ k)) % 2 = 1 \/ (y \div (2 ^ k)) % 2 = 1 THEN 2 ^ k ELSE 0
    IN  bit(0) + bit(1) + bit(2) + bit(3) + bit(4)

\* a | b, for two BigInts
BigOr(a, b) == Tuple([i \in 1..BigWidth |-> DigitOr(a[i], b[i])])

\* The loop of encodeCrockford from position i down to 0: chars[i] is the
\* symbol of remaining & 31, and remaining >>= 5 drops the lowest digit.
RECURSIVE EncodeFrom(_, _)
EncodeFrom(remaining, i) ==
    IF i < 0 THEN <<>>
    ELSE EncodeFrom(Tail(remaining) \o <<IF BigIsNegative(remaining) THEN 31 ELSE 0>>, i - 1)
         \o <<CROCKFORD_ALPHABET[remaining[1] + 1]>>

\* s without its leading "0" characters, as value.toString(32) would print it
RECURSIVE TrimLeadingZeros(_)
TrimLeadingZeros(s) ==
    IF Len(s) > 1 /\ s[1] = CROCKFORD_ALPHABET[1] THEN TrimLeadingZeros(Tail(s)) ELSE s

\* The encoding without zero padding
encodeCrockford_Unpadded(value) == TrimLeadingZeros(EncodeFrom(value, TSID_LENGTH - 1))

\* The symbols of a non-negative value, zeros shifted in
RECURSIVE EncodeMagnitude(_, _)
EncodeMagnitude(remaining, i) ==
    IF i < 0 THEN <<>>
    ELSE EncodeMagnitude(Tail(remaining) \o <<0>>, i - 1)
         \o <<CROCKFORD_ALPHABET[remaining[1] + 1]>>

\* The encoding writing a negative value as a minus sign and its magnitude
encodeCrockford_Signed(value) ==
    IF BigIsNegative(value)
    THEN <<45>> \o EncodeMagnitude(BigNeg(value), TSID_LENGTH - 1)
    ELSE EncodeMagnitude(value, TSID_LENGTH - 1)

encodeCrockford(value) == EncodeFrom(value, TSID_LENGTH - 1)

\* generate() with the random value above the timestamp
generate_RandomFirst(dateNow, random) ==
    LET timestamp == BigSub(dateNow, CUSTOM_EPOCH)
        value     == BigOr(BigShiftLeft(BigShiftLeft(BigOfNat(random), 21), 21), timestamp)
    IN  EncodeFrom(value, TSID_LENGTH - 1)

\* generate(), given what Date.now() and Math.random() return: dateNow is a
\* wide integer, random the value of Math.floor(Math.random() * (RANDOM_MASK + 1)).
generate(dateNow, random) ==
    LET timestamp == BigSub(dateNow, CUSTOM_EPOCH)
        value     == BigOr(BigShiftLeft(timestamp, RANDOM_BITS), BigOfNat(random))
    IN  encodeCrockford(value)

isValid(tsid) ==
    IF Len(tsid) # TSID_LENGTH THEN FALSE
    ELSE LET upper == ToUpperCase(tsid)
         IN  \A i \in 1..Len(upper) : \E k \in 1..Len(CROCKFORD_ALPHABET) : CROCKFORD_ALPHABET[k] = upper[i]

(***************************************************************************)
(* JavaScript values                                                       *)
(***************************************************************************)
Null == [t |-> "null"]

Str(s) == [t |-> "string", s |-> s]

Num(n) == [t |-> "number", n |-> n]

Bool(b) == [t |-> "boolean", b |-> b]

\* An object: its own enumerable properties <<key, value>> in insertion order.
Obj(entries) == [t |-> "object", e |-> entries]

Arr(items) == [t |-> "array", a |-> items]

\* A Date: its time value, a wide integer of milliseconds since 1970.
DateOf(ms) == [t |-> "date", ms |-> ms]

EmptyObj == Obj(<<>>)

\* Object.keys(o)
ObjectKeys(o) == Tuple([i \in 1..Len(o.e) |-> o.e[i][1]])

HasKey(o, k) == \E i \in 1..Len(o.e) : o.e[i][1] = k

\* o[k], for a key o has
Get(o, k) == o.e[CHOOSE i \in 1..Len(o.e) : o.e[i][1] = k][2]

\* The assignment result[key] = value: an existing key keeps its position.
SetKey(o, k, v) ==
    IF HasKey(o, k)
    THEN Obj(Tuple([i \in 1..Len(o.e) |-> IF o.e[i][1] = k THEN <<k, v>> ELSE o.e[i]]))
    ELSE Obj(Append(o.e, <<k, v>>))

\* The object spread { ...a, ...b }
RECURSIVE SpreadInto(_, _)
SpreadInto(acc, entries) ==
    IF entries = <<>> THEN acc
    ELSE SpreadInto(SetKey(acc, Head(entries)[1], Head(entries)[2]), Tail(entries))

\* The spread { ...b, ...a }: a key of both keeps the value of a
Spread_OlderWins(a, b) == SpreadInto(SpreadInto(EmptyObj, b.e), a.e)

Spread(a, b) == SpreadInto(SpreadInto(EmptyObj, a.e), b.e)

\* filterNulls(obj): the entries whose value is neither null nor undefined
RECURSIVE FilterEntries(_)
FilterEntries(entries) ==
    IF entries = <<>> THEN <<>>
    ELSE (IF Head(entries)[2].t \notin {"null", "undefined"} THEN <<Head(entries)>> ELSE <<>>)
         \o FilterEntries(Tail(entries))

\* The object itself, null values included
filterNulls_KeepAll(obj) == obj

filterNulls(obj) == Obj(FilterEntries(obj.e))

(***************************************************************************)
(* Number and Date formatting                                              *)
(***************************************************************************)
\* The decimal digits of a non-negative integer.
RECURSIVE Digits(_)
Digits(n) == IF n < 10 THEN <<48 + n>> ELSE Digits(n \div 10) \o <<48 + (n % 10)>>

\* Number.prototype.toString for an integer
NumberToString(n) == IF n < 0 THEN Lit.minus \o Digits(0 - n) ELSE Digits(n)

\* n in at least w decimal digits
RECURSIVE Pad(_, _)
Pad(n, w) == IF w <= 1 THEN Digits(n) ELSE
             IF n < 10 ^ (w - 1) THEN <<48>> \o Pad(n, w - 1) ELSE Digits(n)

\* The date and time of day z - 719468 days after 1970-01-01, secOfDay seconds
\* and millis milliseconds into the day, as YYYY-MM-DDTHH:mm:ss.sssZ.
FormatDate(z, secOfDay, millis) ==
    LET era     == z \div 146097
        doe     == z % 146097
        yoe     == (doe - (doe \div 1460) + (doe \div 36524) - (doe \div 146096)) \div 365
        doy     == doe - (365 * yoe + (yoe \div 4) - (yoe \div 100))
        mp      == (5 * doy + 2) \div 153
        day     == doy - ((153 * mp + 2) \div 5) + 1
        month   == IF mp < 10 THEN mp + 3 ELSE mp - 9
        year    == yoe + era * 400 + (IF month <= 2 THEN 1 ELSE 0)
    IN  Concat(<< Pad(year, 4), Lit.minus, Pad(month, 2), Lit.minus, Pad(day, 2), Lit.T,
                  Pad(secOfDay \div 3600, 2), Lit.colon, Pad((secOfDay \div 60) % 60, 2), Lit.colon,
                  Pad(secOfDay % 60, 2), Lit.dot, Pad(millis, 3), Lit.Z >>)

\* byDay: the whole days and the seconds into the day
FormatByDay(byDay, millis) == FormatDate(BigToNat(byDay[1]) + 719468, byDay[2], millis)

\* bySec: the whole seconds and the milliseconds into the second
FormatBySecond(bySec) == FormatByDay(BigDivMod(bySec[1], 86400), bySec[2])

\* Date.prototype.toISOString for a time value in the years 1970..9999:
\* YYYY-MM-DDTHH:mm:ss.sssZ in UTC.
toISOString(ms) == FormatBySecond(BigDivMod(ms, 1000))

(***************************************************************************)
(* JSON.stringify and TextEncoder                                          *)
(***************************************************************************)
IsHighSurrogate(c) == c >= 55296 /\ c <= 56319

IsLowSurrogate(c) == c >= 56320 /\ c <= 57343

HexDigit(n) == IF n < 10 THEN 48 + n ELSE 87 + n

\* \uXXXX, in lower case hexadecimal
UnicodeEscape(c) ==
    Lit.escU \o <<HexDigit(c \div 4096), HexDigit((c \div 256) % 16),
                  HexDigit((c \div 16) % 16), HexDigit(c % 16)>>

\* Whether the code units at i and i + 1 are a surrogate pair.
IsPairAt(s, i) == i >= 1 /\ i < Len(s) /\ IsHighSurrogate(s[i]) /\ IsLowSurrogate(s[i + 1])

\* QuoteJSONString: what the code unit at position i of s becomes
QuoteUnit(s, i) ==
    LET c == s[i]
    IN  IF c >= 32 /\ c # 34 /\ c # 92 /\ c < 55296 THEN <<c>>
        ELSE IF IsPairAt(s, i) \/ IsPairAt(s, i - 1) THEN <<c>>
        ELSE CASE c = 34 -> Lit.escQuote
               [] c = 92 -> Lit.escBackslash
               [] c = 8  -> Lit.escB
               [] c = 12 -> Lit.escF
               [] c = 10 -> Lit.escN
               [] c = 13 -> Lit.escR
               [] c = 9  -> Lit.escT
               [] OTHER  -> IF c < 32 \/ IsHighSurrogate(c) \/ IsLowSurrogate(c)
                            THEN UnicodeEscape(c)
                            ELSE <<c>>

QuoteJSONString(s) == Lit.quote \o Concat(Tuple([i \in 1..Len(s) |-> QuoteUnit(s, i)])) \o Lit.quote

\* JSON.stringify(v) without indentation
RECURSIVE JSONStringify(_)
RECURSIVE StringifyEntries(_, _)
RECURSIVE StringifyItems(_, _)
StringifyEntries(entries, first) ==
    IF entries = <<>> THEN <<>>
    ELSE (IF first THEN <<>> ELSE Lit.comma)
         \o QuoteJSONString(Head(entries)[1]) \o Lit.colon \o JSONStringify(Head(entries)[2])
         \o StringifyEntries(Tail(entries), FALSE)

StringifyItems(items, first) ==
    IF items = <<>> THEN <<>>
    ELSE (IF first THEN <<>> ELSE Lit.comma)
         \o JSONStringify(Head(items))
         \o StringifyItems(Tail(items), FALSE)

JSONStringify(v) ==
    CASE v.t = "null"    -> Lit.null
      [] v.t = "string"  -> QuoteJSONString(v.s)
      [] v.t = "number"  -> NumberToString(v.n)
      [] v.t = "boolean" -> IF v.b THEN Lit.true ELSE Lit.false
      [] v.t = "date"    -> QuoteJSONString(toISOString(v.ms))
      [] v.t = "object"  -> Lit.lbrace \o StringifyEntries(v.e, TRUE) \o Lit.rbrace
      [] v.t = "array"   -> Lit.lbracket \o StringifyItems(v.a, TRUE) \o Lit.rbracket

\* The UTF-8 bytes of the code point cp
Utf8Bytes(cp) ==
    IF cp < 128 THEN <<cp>>
    ELSE IF cp < 2048 THEN <<192 + (cp \div 64), 128 + (cp % 64)>>
    ELSE IF cp < 65536 THEN <<224 + (cp \div 4096), 128 + ((cp \div 64) % 64), 128 + (cp % 64)>>
    ELSE <<240 + (cp \div 262144), 128 + ((cp \div 4096) % 64), 128 + ((cp \div 64) % 64), 128 + (cp % 64)>>

\* new TextEncoder().encode(s): a surrogate pair is one code point, a lone
\* surrogate is replaced by U+FFFD. EncodeUnit is what position i contributes.
EncodeUnit(s, i) ==
    LET c == s[i]
    IN  IF c < 128 THEN <<c>>
        ELSE IF IsPairAt(s, i) THEN Utf8Bytes(65536 + (c - 55296) * 1024 + (s[i + 1] - 56320))
        ELSE IF IsPairAt(s, i - 1) THEN <<>>
        ELSE IF IsHighSurrogate(c) \/ IsLowSurrogate(c) THEN Utf8Bytes(65533)
        ELSE Utf8Bytes(c)

TextEncoderEncode(s) == Concat(Tuple([i \in 1..Len(s) |-> EncodeUnit(s, i)]))

(***************************************************************************)
(* The message DTO builders                                                *)
(***************************************************************************)
Undefined == [t |-> "undefined"]

\* params.name, undefined when the property is absent
Prop(params, name) == IF name \in DOMAIN params THEN params[name] ELSE Undefined

\* a || b: false, 0 and the empty string give way to b as well
Nullish_Falsy(a, b) ==
    IF a \in {Null, Undefined, Bool(FALSE), Num(0), Str(<<>>)} THEN b ELSE a

\* a ?? b
Nullish(a, b) == IF a = Null \/ a = Undefined THEN b ELSE a

\* The property names of the payloads, as strings.
Key ==
    [ specVersion |-> S("specVersion"), type |-> S("type"), source |-> S("source"),
      subject |-> S("subject"), data |-> S("data"), correlationId |-> S("correlationId"),
      causationId |-> S("causationId"), deduplicationId |-> S("deduplicationId"),
      messageGroup |-> S("messageGroup"), contextData |-> S("contextData"),
      code |-> S("code"), targetUrl |-> S("targetUrl"), payload |-> S("payload"),
      payloadContentType |-> S("payloadContentType"),
      dispatchPoolId |-> S("dispatchPoolId"), eventId |-> S("eventId"),
      metadata |-> S("metadata"), headers |-> S("headers"), dataOnly |-> S("dataOnly"),
      sequence |-> S("sequence"), timeoutSeconds |-> S("timeoutSeconds"),
      maxRetries |-> S("maxRetries"), retryStrategy |-> S("retryStrategy"),
      scheduledFor |-> S("scheduledFor"), expiresAt |-> S("expiresAt"),
      idempotencyKey |-> S("idempotencyKey"), externalId |-> S("externalId"),
      entityType |-> S("entityType"), entityId |-> S("entityId"),
      operation |-> S("operation"), operationData |-> S("operationData"),
      principalId |-> S("principalId"), performedAt |-> S("performedAt"), key |-> S("key"),
      value |-> S("value") ]

\* ---- CreateEventDto ----
CreateEventDto(params) ==
    [ type            |-> Prop(params, "type"),
      data            |-> Prop(params, "data"),
      source          |-> Nullish(Prop(params, "source"), Null),
      subject         |-> Nullish(Prop(params, "subject"), Null),
      correlationId   |-> Nullish(Prop(params, "correlationId"), Null),
      causationId     |-> Nullish(Prop(params, "causationId"), Null),
      deduplicationId |-> Nullish(Prop(params, "deduplicationId"), Null),
      messageGroup    |-> Nullish(Prop(params, "messageGroup"), Null),
      contextData     |-> Nullish(Prop(params, "contextData"), Arr(<<>>)),
      headers         |-> Nullish(Prop(params, "headers"), EmptyObj) ]

EventCreate(type, data) == CreateEventDto([type |-> type, data |-> data])

\* toParams copies every field
EventToParams(this) ==
    [ type |-> this.type, data |-> this.data, source |-> this.source,
      subject |-> this.subject, correlationId |-> this.correlationId,
      causationId |-> this.causationId, deduplicationId |-> this.deduplicationId,
      messageGroup |-> this.messageGroup, contextData |-> this.contextData,
      headers |-> this.headers ]

EventWithSource(this, source) == CreateEventDto([source |-> source] @@ EventToParams(this))

EventWithSubject(this, subject) == CreateEventDto([subject |-> subject] @@ EventToParams(this))

EventWithCorrelationId(this, correlationId) ==
    CreateEventDto([correlationId |-> correlationId] @@ EventToParams(this))

EventWithCausationId(this, causationId) ==
    CreateEventDto([causationId |-> causationId] @@ EventToParams(this))

EventWithDeduplicationId(this, deduplicationId) ==
    CreateEventDto([deduplicationId |-> deduplicationId] @@ EventToParams(this))

EventWithMessageGroup(this, messageGroup) ==
    CreateEventDto([messageGroup |-> messageGroup] @@ EventToParams(this))

EventWithHeaders(this, headers) ==
    CreateEventDto([headers |-> Spread(this.headers, headers)] @@ EventToParams(this))

EventWithContextData(this, contextData) ==
    CreateEventDto([contextData |-> Arr(this.contextData.a \o contextData.a)] @@ EventToParams(this))

EventToPayload(this) ==
    filterNulls(Obj(<<
        <<Key.specVersion, Str(Lit.specVersion)>>,
        <<Key.type, this.type>>,
        <<Key.source, this.source>>,
        <<Key.subject, this.subject>>,
        <<Key.data, Str(JSONStringify(this.data))>>,
        <<Key.correlationId, this.correlationId>>,
        <<Key.causationId, this.causationId>>,
        <<Key.deduplicationId, this.deduplicationId>>,
        <<Key.messageGroup, this.messageGroup>>,
        <<Key.contextData, IF Len(this.contextData.a) > 0 THEN this.contextData ELSE Null>> >>))

\* ---- CreateDispatchJobDto ----
CreateDispatchJobDto(params) ==
    [ source             |-> Prop(params, "source"),
      code               |-> Prop(params, "code"),
      targetUrl          |-> Prop(params, "targetUrl"),
      payload            |-> Prop(params, "payload"),
      dispatchPoolId     |-> Prop(params, "dispatchPoolId"),
      subject            |-> Nullish(Prop(params, "subject"), Null),
      correlationId      |-> Nullish(Prop(params, "correlationId"), Null),
      eventId            |-> Nullish(Prop(params, "eventId"), Null),
      metadata           |-> Nullish(Prop(params, "metadata"), EmptyObj),
      headers            |-> Nullish(Prop(params, "headers"), EmptyObj),
      payloadContentType |-> Nullish(Prop(params, "payloadContentType"), Str(Lit.json)),
      dataOnly           |-> Nullish(Prop(params, "dataOnly"), Bool(TRUE)),
      messageGroup       |-> Nullish(Prop(params, "messageGroup"), Null),
      sequence           |-> Nullish(Prop(params, "sequence"), Null),
      timeoutSeconds     |-> Nullish(Prop(params, "timeoutSeconds"), Num(30)),
      maxRetries         |-> Nullish(Prop(params, "maxRetries"), Num(5)),
      retryStrategy      |-> Nullish(Prop(params, "retryStrategy"), Null),
      scheduledFor       |-> Nullish(Prop(params, "scheduledFor"), Null),
      expiresAt          |-> Nullish(Prop(params, "expiresAt"), Null),
      idempotencyKey     |-> Nullish(Prop(params, "idempotencyKey"), Null),
      externalId         |-> Nullish(Prop(params, "externalId"), Null) ]

DispatchJobCreate(source, code, targetUrl, payload, dispatchPoolId) ==
    CreateDispatchJobDto(
        [ source |-> source, code |-> code, targetUrl |-> targetUrl,
          payload |-> IF payload.t = "string" THEN payload ELSE Str(JSONStringify(payload)),
          dispatchPoolId |-> dispatchPoolId ])

DispatchJobToParams(this) ==
    [ source |-> this.source, code |-> this.code, targetUrl |-> this.targetUrl,
      payload |-> this.payload, dispatchPoolId |-> this.dispatchPoolId,
      subject |-> this.subject, correlationId |-> this.correlationId,
      eventId |-> this.eventId, metadata |-> this.metadata, headers |-> this.headers,
      payloadContentType |-> this.payloadContentType, dataOnly |-> this.dataOnly,
      messageGroup |-> this.messageGroup, sequence |-> this.sequence,
      timeoutSeconds |-> this.timeoutSeconds, maxRetries |-> this.maxRetries,
      retryStrategy |-> this.retryStrategy, scheduledFor |-> this.scheduledFor,
      expiresAt |-> this.expiresAt, idempotencyKey |-> this.idempotencyKey,
      externalId |-> this.externalId ]

DispatchJobWithSubject(this, subject) ==
    CreateDispatchJobDto([subject |-> subject] @@ DispatchJobToParams(this))

DispatchJobWithCorrelationId(this, correlationId) ==
    CreateDispatchJobDto([correlationId |-> correlationId] @@ DispatchJobToParams(this))

DispatchJobWithEventId(this, eventId) ==
    CreateDispatchJobDto([eventId |-> eventId] @@ DispatchJobToParams(this))

DispatchJobWithMetadata(this, metadata) ==
    CreateDispatchJobDto([metadata |-> Spread(this.metadata, metadata)] @@ DispatchJobToParams(this))

DispatchJobWithHeaders(this, headers) ==
    CreateDispatchJobDto([headers |-> Spread(this.headers, headers)] @@ DispatchJobToParams(this))

DispatchJobWithPayloadContentType(this, payloadContentType) ==
    CreateDispatchJobDto([payloadContentType |-> payloadContentType] @@ DispatchJobToParams(this))

DispatchJobWithDataOnly(this, dataOnly) ==
    CreateDispatchJobDto([dataOnly |-> dataOnly] @@ DispatchJobToParams(this))

DispatchJobWithMessageGroup(this, messageGroup) ==
    CreateDispatchJobDto([messageGroup |-> messageGroup] @@ DispatchJobToParams(this))

DispatchJobWithSequence(this, sequence) ==
    CreateDispatchJobDto([sequence |-> sequence] @@ DispatchJobToParams(this))

\* withTimeoutSeconds returning the receiver as it is
DispatchJobWithTimeoutSeconds_Ignored(this, timeoutSeconds) == this

DispatchJobWithTimeoutSeconds(this, timeoutSeconds) ==
    CreateDispatchJobDto([timeoutSeconds |-> timeoutSeconds] @@ DispatchJobToParams(this))

DispatchJobWithMaxRetries(this, maxRetries) ==
    CreateDispatchJobDto([maxRetries |-> maxRetries] @@ DispatchJobToParams(this))

DispatchJobWithRetryStrategy(this, retryStrategy) ==
    CreateDispatchJobDto([retryStrategy |-> retryStrategy] @@ DispatchJobToParams(this))

DispatchJobWithScheduledFor(this, scheduledFor) ==
    CreateDispatchJobDto([scheduledFor |-> scheduledFor] @@ DispatchJobToParams(this))

DispatchJobWithExpiresAt(this, expiresAt) ==
    CreateDispatchJobDto([expiresAt |-> expiresAt] @@ DispatchJobToParams(this))

DispatchJobWithIdempotencyKey(this, idempotencyKey) ==
    CreateDispatchJobDto([idempotencyKey |-> idempotencyKey] @@ DispatchJobToParams(this))

DispatchJobWithExternalId(this, externalId) ==
    CreateDispatchJobDto([externalId |-> externalId] @@ DispatchJobToParams(this))

\* date?.toISOString() ?? null
OptionalIso(date) == IF date = Null \/ date = Undefined THEN Null ELSE Str(toISOString(date.ms))

DispatchJobToPayload(this) ==
    filterNulls(Obj(<<
        <<Key.source, this.source>>,
        <<Key.code, this.code>>,
        <<Key.targetUrl, this.targetUrl>>,
        <<Key.payload, this.payload>>,
        <<Key.payloadContentType, this.payloadContentType>>,
        <<Key.dispatchPoolId, this.dispatchPoolId>>,
        <<Key.subject, this.subject>>,
        <<Key.correlationId, this.correlationId>>,
        <<Key.eventId, this.eventId>>,
        <<Key.metadata, IF Len(ObjectKeys(this.metadata)) > 0 THEN this.metadata ELSE Null>>,
        <<Key.headers, IF Len(ObjectKeys(this.headers)) > 0 THEN this.headers ELSE Null>>,
        <<Key.dataOnly, this.dataOnly>>,
        <<Key.messageGroup, this.messageGroup>>,
        <<Key.sequence, this.sequence>>,
        <<Key.timeoutSeconds, this.timeoutSeconds>>,
        <<Key.maxRetries, this.maxRetries>>,
        <<Key.retryStrategy, this.retryStrategy>>,
        <<Key.scheduledFor, OptionalIso(this.scheduledFor)>>,
        <<Key.expiresAt, OptionalIso(this.expiresAt)>>,
        <<Key.idempotencyKey, this.idempotencyKey>>,
        <<Key.externalId, this.externalId>> >>))

\* ---- CreateAuditLogDto ----
CreateAuditLogDto(params) ==
    [ entityType    |-> Prop(params, "entityType"),
      entityId      |-> Prop(params, "entityId"),
      operation     |-> Prop(params, "operation"),
      operationData |-> Nullish(Prop(params, "operationData"), Null),
      principalId   |-> Nullish(Prop(params, "principalId"), Null),
      performedAt   |-> Nullish(Prop(params, "performedAt"), Null),
      source        |-> Nullish(Prop(params, "source"), Null),
      correlationId |-> Nullish(Prop(params, "correlationId"), Null),
      metadata      |-> Nullish(Prop(params, "metadata"), EmptyObj),
      headers       |-> Nullish(Prop(params, "headers"), EmptyObj) ]

AuditLogCreate(entityType, entityId, operation) ==
    CreateAuditLogDto([entityType |-> entityType, entityId |-> entityId, operation |-> operation])

AuditLogToParams(this) ==
    [ entityType |-> this.entityType, entityId |-> this.entityId,
      operation |-> this.operation, operationData |-> this.operationData,
      principalId |-> this.principalId, performedAt |-> this.performedAt,
      source |-> this.source, correlationId |-> this.correlationId,
      metadata |-> this.metadata, headers |-> this.headers ]

AuditLogWithOperationData(this, operationData) ==
    CreateAuditLogDto([operationData |-> operationData] @@ AuditLogToParams(this))

AuditLogWithPrincipalId(this, principalId) ==
    CreateAuditLogDto([principalId |-> principalId] @@ AuditLogToParams(this))

AuditLogWithPerformedAt(this, performedAt) ==
    CreateAuditLogDto([performedAt |-> performedAt] @@ AuditLogToParams(this))

AuditLogWithSource(this, source) ==
    CreateAuditLogDto([source |-> source] @@ AuditLogToParams(this))

AuditLogWithCorrelationId(this, correlationId) ==
    CreateAuditLogDto([correlationId |-> correlationId] @@ AuditLogToParams(this))

AuditLogWithMetadata(this, metadata) ==
    CreateAuditLogDto([metadata |-> Spread(this.metadata, metadata)] @@ AuditLogToParams(this))

AuditLogWithHeaders(this, headers) ==
    CreateAuditLogDto([headers |-> Spread(this.headers, headers)] @@ AuditLogToParams(this))

\* Truthiness of the values a DTO field can hold.
Truthy(v) ==
    CASE v.t = "null"      -> FALSE
      [] v.t = "undefined" -> FALSE
      [] v.t = "string"    -> v.s # <<>>
      [] v.t = "number"    -> v.n # 0
      [] v.t = "boolean"   -> v.b
      [] OTHER             -> TRUE

\* toPayload() writing the time of the call whatever performedAt holds
AuditLogToPayload_AlwaysNow(this, dateNow) ==
    filterNulls(Obj(<<
        <<Key.entityType, this.entityType>>,
        <<Key.entityId, this.entityId>>,
        <<Key.operation, this.operation>>,
        <<Key.operationData, IF Truthy(this.operationData)
                             THEN Str(JSONStringify(this.operationData)) ELSE Null>>,
        <<Key.principalId, this.principalId>>,
        <<Key.performedAt, Str(toISOString(dateNow))>>,
        <<Key.source, this.source>>,
        <<Key.correlationId, this.correlationId>>,
        <<Key.metadata, IF Len(ObjectKeys(this.metadata)) > 0 THEN this.metadata ELSE Null>> >>))

\* toPayload(), dateNow being the time value new Date() has at the call
AuditLogToPayload(this, dateNow) ==
    filterNulls(Obj(<<
        <<Key.entityType, this.entityType>>,
        <<Key.entityId, this.entityId>>,
        <<Key.operation, this.operation>>,
        <<Key.operationData, IF Truthy(this.operationData)
                             THEN Str(JSONStringify(this.operationData)) ELSE Null>>,
        <<Key.principalId, this.principalId>>,
        <<Key.performedAt, Str(toISOString(Nullish(this.performedAt, DateOf(dateNow)).ms))>>,
        <<Key.source, this.source>>,
        <<Key.correlationId, this.correlationId>>,
        <<Key.metadata, IF Len(ObjectKeys(this.metadata)) > 0 THEN this.metadata ELSE Null>> >>))

(***************************************************************************)
(* Outbox message model (types.ts)                                         *)
(***************************************************************************)
OutboxStatus ==
    [ PENDING |-> 0, SUCCESS |-> 1, BAD_REQUEST |-> 2, INTERNAL_ERROR |-> 3,
      UNAUTHORIZED |-> 4, FORBIDDEN |-> 5, GATEWAY_ERROR |-> 6, IN_PROGRESS |-> 9 ]

MessageType == [EVENT |-> S("EVENT"), DISPATCH_JOB |-> S("DISPATCH_JOB"), AUDIT_LOG |-> S("AUDIT_LOG")]

(***************************************************************************)
(* Bounds and inputs                                                       *)
(***************************************************************************)
\* The longest list given to a batch create.
MaxBatch == 2

\* How many milliseconds the clock advances.
MaxTicks == 1

\* The callers of the manager; one invocation each at a time.
Callers == {"a", "b"}
\* The caller of the runs in which one invocation ends before the next begins
Sequential == {"a"}

\* 2026-11-05T10:55:23.456Z
ClockStart == BigOfParts(1793876, 123456)

ClockEnd == BigAdd(ClockStart, BigOfNat(MaxTicks))

\* The values Math.floor(Math.random() * (RANDOM_MASK + 1)) is drawn from.
RandomValues == {0, RANDOM_MASK}

\* The client ids a manager is constructed with: empty and non-empty.
ClientIds == {Str(<<>>), Str(S("c1"))}

\* What a driver may raise.
DriverErrors == {"ConnectionError", "UniqueViolation"}

ConfigurationError == "OutboxManager: clientId is required"

\* "e-acute" and an emoji (a surrogate pair): text whose UTF-8 length differs
\* from its length in code units
NonAscii == <<233, 55357, 56832>>

EventSamples ==
    { EventCreate(Str(S("t")), EmptyObj),
      EventWithHeaders(
          EventWithMessageGroup(
              EventCreate(Str(S("u")), Obj(<< <<S("k"), Str(NonAscii)>> >>)),
              Str(S("g"))),
          Obj(<< <<S("x"), Str(S("1"))>> >>)) }

DispatchJobSamples ==
    { DispatchJobCreate(Str(S("s")), Str(S("c")), Str(S("u")), Str(S("{}")), Str(S("p"))),
      DispatchJobWithHeaders(
          DispatchJobWithMessageGroup(
              DispatchJobCreate(Str(S("s")), Str(S("d")), Str(S("u")), Str(NonAscii), Str(S("p"))),
              Str(S("g"))),
          Obj(<< <<S("x"), Str(S("1"))>> >>)) }

AuditLogSamples ==
    { AuditLogCreate(Str(S("U")), Str(S("1")), Str(S("C"))),
      AuditLogWithHeaders(
          AuditLogWithMetadata(
              AuditLogCreate(Str(S("U")), Str(S("2")), Str(S("D"))),
              Obj(<< <<S("m"), Str(NonAscii)>> >>)),
          Obj(<< <<S("x"), Str(S("1"))>> >>)) }

\* The lists of at most MaxBatch elements of a set
ListsOf(set) == UNION {[1..n -> set] : n \in 0..MaxBatch}

SingleMethods == {"createEvent", "createDispatchJob", "createAuditLog"}

BatchMethods == {"createEvents", "createDispatchJobs", "createAuditLogs"}

(***************************************************************************)
(* State                                                                   *)
(***************************************************************************)
VARIABLES
    clientId,    \* OutboxManager.clientId
    clock,       \* the time value Date.now() returns
    calls,       \* calls[c]: the invocation of caller c
    driverLog,   \* the calls made on the driver, oldest first
    issued,      \* the TSIDs generated directly, oldest first, each with its inputs
    held,        \* the DTO instances a caller holds, each with the call that made it
    out,         \* what the last toPayload() returned, for which instance and when,
                 \* and what the call before it returned for that instance
    verdict,     \* the last call of isValid: its argument and what it returned
    config,      \* FlowCatalystClient: the resolved configuration and the mode
    request,     \* the request() in progress: where it stands and its locals
    fnLog,       \* the invocations of the wrapped call of that request, oldest first
    managerLog,  \* the calls that request made on the token manager, oldest first
    tokenConfig, \* OidcTokenManager.config: the client id and the client secret
    cachedToken, \* OidcTokenManager.cachedToken
    refreshPromise, \* OidcTokenManager.refreshPromise: the fetch it stands for
    fetches,     \* the token fetches started, oldest first, each with its progress
    asks         \* the getAccessToken / refreshToken calls and what each awaits

\* The state of each part of the library; the clock is shared by all
managerVars == <<clientId, calls, driverLog>>

tsidVars == <<issued, verdict>>

dtoVars == <<held, out>>

clientVars == <<config, request, fnLog, managerLog>>

authVars == <<tokenConfig, cachedToken, refreshPromise, fetches, asks>>

\* What the manager's methods never touch
besideManager == <<tsidVars, dtoVars, clientVars, authVars>>

\* What generate() and isValid() never touch
besideTsid == <<managerVars, dtoVars, clientVars, authVars>>

\* What the builders never touch
besideDto == <<managerVars, tsidVars, clientVars, authVars>>

\* What the client's request() never touches
besideClient == <<managerVars, tsidVars, dtoVars, authVars>>

\* What the token manager never touches
besideAuth == <<managerVars, tsidVars, dtoVars, clientVars>>

vars == <<clientId, clock, calls, driverLog, issued, held, out, verdict,
          config, request, fnLog, managerLog, tokenConfig, cachedToken, refreshPromise,
          fetches, asks>>

\* An invocation: where it stands (idle, awaiting the driver, returned,
\* threw), the method and its argument, the clock reading of each iteration,
\* the local ids, and the value returned or the error thrown.
Idle == [pc |-> "idle", method |-> "none", input |-> <<>>, times |-> <<>>,
         ids |-> <<>>, result |-> Undefined, error |-> "none"]

\* The parts of the library a run does not use stay as they are constructed
ManagerUnused ==
    /\ clientId = Str(S("c1"))
    /\ calls = [c \in Callers |-> Idle]
    /\ driverLog = <<>>

TsidUnused == issued = <<>> /\ verdict = Undefined

DtoUnused == held = [s \in {"d", "a", "b"} |-> Undefined] /\ out = Undefined

\* The configuration the constructor resolves when no option is given
DefaultConfig ==
    [mode |-> "clientCredentials", timeout |-> 30000, retryAttempts |-> 3, retryDelay |-> 100]

\* No request() in progress
NoRequest ==
    [pc |-> "idle", token |-> "none", attempt |-> 0, canRefreshToken |-> FALSE,
     timerFired |-> FALSE, delay |-> 0, result |-> [kind |-> "none", type |-> "none"]]

ClientUnused ==
    /\ config = DefaultConfig
    /\ request = NoRequest
    /\ fnLog = <<>>
    /\ managerLog = <<>>

\* The credentials of a configured client
Credentials == [clientId |-> Str(S("id")), clientSecret |-> Str(S("s"))]

AuthUnused ==
    /\ tokenConfig = Credentials
    /\ cachedToken = Null
    /\ refreshPromise = Null
    /\ fetches = <<>>
    /\ asks = <<>>

(***************************************************************************)
(* OutboxManager (outbox-manager.js)                                       *)
(***************************************************************************)
\* payload.length in place of the encoded length
PayloadSize_CodeUnits(payload) == Len(payload)

\* new TextEncoder().encode(payload).byteLength
PayloadSize(payload) == Len(TextEncoderEncode(payload))

\* buildMessage writing the status SUCCESS
buildMessage_StatusSuccess(id, type, payload, messageGroup, headers, dateNow) ==
    LET now == toISOString(dateNow)
    IN  [ id            |-> id,
          type          |-> type,
          message_group |-> messageGroup,
          payload       |-> payload,
          status        |-> OutboxStatus.SUCCESS,
          created_at    |-> now,
          updated_at    |-> now,
          client_id     |-> clientId,
          payload_size  |-> PayloadSize(payload),
          headers       |-> headers ]

\* buildMessage(id, type, payload, messageGroup, headers); dateNow is the
\* time value of new Date()
buildMessage(id, type, payload, messageGroup, headers, dateNow) ==
    LET now == toISOString(dateNow)
    IN  [ id            |-> id,
          type          |-> type,
          message_group |-> messageGroup,
          payload       |-> payload,
          status        |-> OutboxStatus.PENDING,
          created_at    |-> now,
          updated_at    |-> now,
          client_id     |-> clientId,
          payload_size  |-> PayloadSize(payload),
          headers       |-> headers ]

\* ensureClientId() that never throws
ClientIdPresent_Always == TRUE

\* ensureClientId() returns normally
ClientIdPresent == Truthy(clientId)

\* No list counts as empty
IsEmptyList_Never(dtos) == FALSE

\* The list given to a batch create has length 0
IsEmptyList(dtos) == Len(dtos) = 0

\* dto.headers, whatever its keys
HeadersOrNull_Always(dto) == dto.headers

\* Object.keys(dto.headers).length > 0 ? dto.headers : null
HeadersOrNull(dto) == IF Len(ObjectKeys(dto.headers)) > 0 THEN dto.headers ELSE Null

\* The message each create method builds for one DTO, given the clock and the
\* random value of that iteration.
EventMessage(event, dateNow, random) ==
    buildMessage(generate(dateNow, random), MessageType.EVENT,
                 JSONStringify(EventToPayload(event)), event.messageGroup,
                 HeadersOrNull(event), dateNow)

\* The job's message with no message group
DispatchJobMessage_NoGroup(job, dateNow, random) ==
    buildMessage(generate(dateNow, random), MessageType.DISPATCH_JOB,
                 JSONStringify(DispatchJobToPayload(job)), Null, Null, dateNow)

DispatchJobMessage(job, dateNow, random) ==
    buildMessage(generate(dateNow, random), MessageType.DISPATCH_JOB,
                 JSONStringify(DispatchJobToPayload(job)), job.messageGroup,
                 Null, dateNow)

AuditLogMessage(auditLog, dateNow, random) ==
    buildMessage(generate(dateNow, random), MessageType.AUDIT_LOG,
                 JSONStringify(AuditLogToPayload(auditLog, dateNow)), Null,
                 HeadersOrNull(auditLog), dateNow)

\* The loop of each batch create: messages[i] is built from the i-th DTO with
\* the clock reading and the random value of the i-th iteration.
EventMessages(events, ts, randoms) ==
    Tuple([i \in 1..Len(events) |-> EventMessage(events[i], ts[i], randoms[i])])

DispatchJobMessages(jobs, ts, randoms) ==
    Tuple([i \in 1..Len(jobs) |-> DispatchJobMessage(jobs[i], ts[i], randoms[i])])

AuditLogMessages(auditLogs, ts, randoms) ==
    Tuple([i \in 1..Len(auditLogs) |-> AuditLogMessage(auditLogs[i], ts[i], randoms[i])])

\* The ids pushed from the last message to the first
BatchIds_Reversed(messages) ==
    Tuple([i \in 1..Len(messages) |-> messages[Len(messages) + 1 - i].id])

\* ids.push(id) in the same loop
BatchIds(messages) == Tuple([i \in 1..Len(messages) |-> messages[i].id])

\* One driver call per message
DriverCalls_OnePerMessage(c, op, messages) ==
    Tuple([i \in 1..Len(messages) |->
        [by |-> c, op |-> op, messages |-> <<messages[i]>>, outcome |-> "pending"]])

\* The driver calls of one invocation: one call of op with all its messages.
DriverCalls(c, op, messages) ==
    << [by |-> c, op |-> op, messages |-> messages, outcome |-> "pending"] >>

\* The clock readings of a run of n iterations: each reading is the previous
\* one or later, and none is past ClockEnd.
Readings(n) ==
    { ts \in [1..n -> {clock, BigAdd(clock, BigOfNat(1))}] :
        /\ \A i \in 1..n : ~BigLess(ClockEnd, ts[i])
        /\ \A i \in 1..(n - 1) : ~BigLess(ts[i + 1], ts[i]) }

LastReading(ts) == IF ts = <<>> THEN clock ELSE ts[Len(ts)]

\* A single create of an idle caller: ensureClientId, then the message built at the clock
\* reading ts[1] is given to driver.insert, on which the method awaits.
CreateSingle(c, method, dto, ts, message) ==
    /\ IF ~ClientIdPresent
       THEN /\ calls' = [calls EXCEPT ![c] =
                    [Idle EXCEPT !.pc = "threw", !.method = method, !.input = <<dto>>,
                                 !.error = ConfigurationError]]
            /\ UNCHANGED <<clock, driverLog>>
       ELSE \E built \in {message} :
                /\ driverLog' = driverLog \o DriverCalls(c, "insert", <<built>>)
                /\ calls' = [calls EXCEPT ![c] =
                       [Idle EXCEPT !.pc = "awaiting", !.method = method,
                                    !.input = <<dto>>, !.times = ts,
                                    !.ids = <<built.id>>]]
                /\ clock' = ts[1]
    /\ UNCHANGED <<clientId, besideManager>>

\* A batch create of an idle caller: the empty list returns [] at once; otherwise
\* ensureClientId, then the messages built in order at the clock readings ts
\* are given to driver.insertBatch, on which the method awaits.
CreateBatch(c, method, dtos, ts, messages) ==
    /\ IF IsEmptyList(dtos)
       THEN /\ calls' = [calls EXCEPT ![c] =
                    [Idle EXCEPT !.pc = "returned", !.method = method, !.input = dtos,
                                 !.result = Arr(<<>>)]]
            /\ UNCHANGED <<clock, driverLog>>
       ELSE IF ~ClientIdPresent
       THEN /\ calls' = [calls EXCEPT ![c] =
                    [Idle EXCEPT !.pc = "threw", !.method = method, !.input = dtos,
                                 !.error = ConfigurationError]]
            /\ UNCHANGED <<clock, driverLog>>
       ELSE \E built \in {messages} :
                /\ driverLog' = driverLog \o DriverCalls(c, "insertBatch", built)
                /\ calls' = [calls EXCEPT ![c] =
                       [Idle EXCEPT !.pc = "awaiting", !.method = method,
                                    !.input = dtos, !.times = ts,
                                    !.ids = BatchIds(built)]]
                /\ clock' = LastReading(ts)
    /\ UNCHANGED <<clientId, besideManager>>

createEvent(c) ==
    /\ calls[c].pc = "idle"
    /\ \E event \in EventSamples, ts \in Readings(1), random \in RandomValues :
           CreateSingle(c, "createEvent", event, ts, EventMessage(event, ts[1], random))

createEvents(c) ==
    /\ calls[c].pc = "idle"
    /\ \E events \in ListsOf(EventSamples) :
           \E ts \in Readings(Len(events)), randoms \in [1..Len(events) -> RandomValues] :
               CreateBatch(c, "createEvents", events, ts, EventMessages(events, ts, randoms))

createDispatchJob(c) ==
    /\ calls[c].pc = "idle"
    /\ \E job \in DispatchJobSamples, ts \in Readings(1), random \in RandomValues :
           CreateSingle(c, "createDispatchJob", job, ts, DispatchJobMessage(job, ts[1], random))

createDispatchJobs(c) ==
    /\ calls[c].pc = "idle"
    /\ \E jobs \in ListsOf(DispatchJobSamples) :
           \E ts \in Readings(Len(jobs)), randoms \in [1..Len(jobs) -> RandomValues] :
               CreateBatch(c, "createDispatchJobs", jobs, ts, DispatchJobMessages(jobs, ts, randoms))

createAuditLog(c) ==
    /\ calls[c].pc = "idle"
    /\ \E auditLog \in AuditLogSamples, ts \in Readings(1), random \in RandomValues :
           CreateSingle(c, "createAuditLog", auditLog, ts, AuditLogMessage(auditLog, ts[1], random))

createAuditLogs(c) ==
    /\ calls[c].pc = "idle"
    /\ \E auditLogs \in ListsOf(AuditLogSamples) :
           \E ts \in Readings(Len(auditLogs)), randoms \in [1..Len(auditLogs) -> RandomValues] :
               CreateBatch(c, "createAuditLogs", auditLogs, ts,
                           AuditLogMessages(auditLogs, ts, randoms))

\* The value a method returns after its await: the id, or the list of ids.
ReturnValue(call) ==
    IF call.method \in SingleMethods THEN Str(call.ids[1])
    ELSE Arr(Tuple([i \in 1..Len(call.ids) |-> Str(call.ids[i])]))

\* The pending driver call of caller c gets the outcome o.
Settle(c, o) ==
    Tuple([k \in 1..Len(driverLog) |->
        IF driverLog[k].by = c /\ driverLog[k].outcome = "pending"
        THEN [driverLog[k] EXCEPT !.outcome = o] ELSE driverLog[k]])

\* The resumed method returns the ids kept for the latest driver call
InsertFulfilled_SharedIds(c) ==
    /\ calls[c].pc = "awaiting"
    /\ driverLog' = Settle(c, "fulfilled")
    /\ calls' = [calls EXCEPT ![c].pc = "returned",
                              ![c].result = ReturnValue(calls[driverLog[Len(driverLog)].by])]
    /\ UNCHANGED <<clientId, clock, besideManager>>

\* The promise of driver.insert / driver.insertBatch is fulfilled: the method
\* resumes after its await and returns the id(s).
InsertFulfilled(c) ==
    /\ calls[c].pc = "awaiting"
    /\ driverLog' = Settle(c, "fulfilled")
    /\ calls' = [calls EXCEPT ![c].pc = "returned", ![c].result = ReturnValue(calls[c])]
    /\ UNCHANGED <<clientId, clock, besideManager>>

\* The driver raises e and the method returns its ids all the same
InsertRejected_Swallowed(c, e) ==
    /\ calls[c].pc = "awaiting"
    /\ driverLog' = Settle(c, e)
    /\ calls' = [calls EXCEPT ![c].pc = "returned", ![c].result = ReturnValue(calls[c])]
    /\ UNCHANGED <<clientId, clock, besideManager>>

\* The driver raises e: the await rethrows it and the method ends with it.
InsertRejected(c, e) ==
    /\ calls[c].pc = "awaiting"
    /\ driverLog' = Settle(c, e)
    /\ calls' = [calls EXCEPT ![c].pc = "threw", ![c].error = e]
    /\ UNCHANGED <<clientId, clock, besideManager>>

\* The caller has taken the outcome of its invocation and may call again.
Collect(c) ==
    /\ calls[c].pc \in {"returned", "threw"}
    /\ calls' = [calls EXCEPT ![c] = Idle]
    /\ driverLog' = SelectSeq(driverLog, LAMBDA d : d.by # c)
    /\ UNCHANGED <<clientId, clock, besideManager>>

\* A millisecond passes.
Tick ==
    /\ BigLess(clock, ClockEnd)
    /\ clock' = BigAdd(clock, BigOfNat(1))
    /\ UNCHANGED <<clientId, calls, driverLog, besideManager>>

Init ==
    /\ clientId \in ClientIds
    /\ clock = ClockStart
    /\ calls = [c \in Callers |-> Idle]
    /\ driverLog = <<>>
    /\ TsidUnused
    /\ DtoUnused
    /\ ClientUnused
    /\ AuthUnused

Next ==
    \/ \E c \in Sequential : createEvent(c)
    \/ \E c \in Sequential : createEvents(c)
    \/ \E c \in Sequential : createDispatchJob(c)
    \/ \E c \in Sequential : createDispatchJobs(c)
    \/ \E c \in Sequential : createAuditLog(c)
    \/ \E c \in Sequential : createAuditLogs(c)
    \/ \E c \in Sequential : InsertFulfilled(c)
    \/ \E c \in Sequential, e \in DriverErrors : InsertRejected(c, e)
    \/ \E c \in Sequential : Collect(c)
    \/ Tick

Spec == Init /\ [][Next]_vars

(***************************************************************************)
(* Properties of the manager                                               *)
(***************************************************************************)
\* The driver calls made by the invocation of caller c
LoggedCalls(c) == SelectSeq(driverLog, LAMBDA d : d.by = c)

\* The invocation of caller c reached the driver
ReachedDriver(c) == calls[c].pc \in {"awaiting", "returned"} \/ calls[c].error \in DriverErrors

\* C1: a manager constructed with an empty client id never invokes the
\* driver's insert or insertBatch, whatever sequence of create calls is made.
C1_NoDriverCallWithoutClientId == clientId = Str(<<>>) => driverLog = <<>>

C1_Witness ==
    /\ clientId = Str(<<>>)
    /\ \E c \in Callers : calls[c].pc = "threw" /\ calls[c].method = "createEvents"

\* C2 as stated: with an empty client id every create method, for every
\* input, an empty list included, fails with the configuration error.
C2_EveryCallFailsWithoutClientId ==
    clientId = Str(<<>>) =>
        \A c \in Callers :
            calls[c].pc # "idle" =>
                calls[c].pc = "threw" /\ calls[c].error = ConfigurationError

\* C3: with a non-empty client id a batch create given the empty list
\* resolves to the empty list and makes no driver call.
C3_EmptyBatchReturnsEmptyList ==
    clientId # Str(<<>>) =>
        \A c \in Callers :
            (calls[c].method \in BatchMethods /\ calls[c].input = <<>>) =>
                /\ calls[c].pc = "returned"
                /\ calls[c].result = Arr(<<>>)
                /\ LoggedCalls(c) = <<>>

C3_Witness ==
    /\ clientId # Str(<<>>)
    /\ \E c \in Callers :
        calls[c].method = "createDispatchJobs" /\ calls[c].input = <<>> /\ calls[c].pc = "returned"

\* The payload a create method serialises for one DTO at the clock reading t
ExpectedPayload(method, dto, t) ==
    CASE method = "createEvents" -> JSONStringify(EventToPayload(dto))
      [] method = "createDispatchJobs" -> JSONStringify(DispatchJobToPayload(dto))
      [] method = "createAuditLogs" -> JSONStringify(AuditLogToPayload(dto, t))

\* C4: for a non-empty batch of length n the returned id list has length n,
\* and the i-th message given to insertBatch carries the i-th returned id and
\* the payload serialised from the i-th input DTO.
C4_BatchKeepsInputOrder ==
    \A c \in Callers :
        (calls[c].method \in BatchMethods /\ calls[c].input # <<>> /\ ReachedDriver(c)) =>
            LET n == Len(calls[c].input)
            IN  /\ Len(calls[c].ids) = n
                /\ \A k \in 1..Len(LoggedCalls(c)) :
                    LET messages == LoggedCalls(c)[k].messages
                    IN  /\ Len(messages) = n
                        /\ \A i \in 1..n :
                            /\ messages[i].id = calls[c].ids[i]
                            /\ messages[i].payload =
                                 ExpectedPayload(calls[c].method, calls[c].input[i], calls[c].times[i])
                /\ calls[c].pc = "returned" =>
                    /\ calls[c].result.t = "array"
                    /\ Len(calls[c].result.a) = n
                    /\ \A i \in 1..n : calls[c].result.a[i] = Str(calls[c].ids[i])

C4_Witness ==
    \E c \in Callers :
        /\ calls[c].method = "createEvents"
        /\ calls[c].pc = "returned"
        /\ Len(calls[c].input) = 2
        /\ calls[c].input[1] # calls[c].input[2]
        /\ calls[c].ids[1] # calls[c].ids[2]

\* C5: an invocation makes at most one driver call; a single create that
\* reaches the driver calls insert once with one message, a non-empty batch
\* create calls insertBatch once with the whole list and never insert.
C5_OneDriverCallPerInvocation ==
    \A c \in Callers :
        /\ Len(LoggedCalls(c)) <= 1
        /\ (calls[c].method \in SingleMethods /\ ReachedDriver(c)) =>
              /\ Len(LoggedCalls(c)) = 1
              /\ LoggedCalls(c)[1].op = "insert"
              /\ Len(LoggedCalls(c)[1].messages) = 1
        /\ (calls[c].method \in BatchMethods /\ calls[c].input # <<>> /\ ReachedDriver(c)) =>
              /\ Len(LoggedCalls(c)) = 1
              /\ LoggedCalls(c)[1].op = "insertBatch"
              /\ Len(LoggedCalls(c)[1].messages) = Len(calls[c].input)

C5_Witness ==
    \E c \in Callers :
        /\ calls[c].method = "createAuditLogs"
        /\ Len(calls[c].input) = 2
        /\ calls[c].pc = "returned"
        /\ Len(LoggedCalls(c)) = 1

\* C6: every message the manager hands to the driver has status 0.
C6_EveryMessagePending ==
    \A k \in 1..Len(driverLog) :
        \A i \in 1..Len(driverLog[k].messages) : driverLog[k].messages[i].status = 0

C6_Witness ==
    \E k \in 1..Len(driverLog) :
        /\ driverLog[k].op = "insertBatch"
        /\ Len(driverLog[k].messages) = 2
        /\ driverLog[k].messages[2].status = 0

\* C8: when the driver's insert or insertBatch fails, the create method
\* fails with exactly the error the driver raised, returns no identifier and
\* makes no further driver call; a caller sees either the identifier(s) or an
\* error, never both and never neither.
C8_DriverErrorPropagates ==
    \A c \in Callers :
        /\ \A k \in 1..Len(LoggedCalls(c)) :
              LoggedCalls(c)[k].outcome \in DriverErrors =>
                  /\ calls[c].pc = "threw"
                  /\ calls[c].error = LoggedCalls(c)[k].outcome
                  /\ calls[c].result = Undefined
                  /\ Len(LoggedCalls(c)) = 1
        /\ calls[c].pc = "returned" =>
              /\ calls[c].error = "none"
              /\ calls[c].result # Undefined
              /\ \A k \in 1..Len(LoggedCalls(c)) : LoggedCalls(c)[k].outcome = "fulfilled"
        /\ calls[c].pc = "threw" =>
              /\ calls[c].error # "none"
              /\ calls[c].result = Undefined

C8_Witness ==
    \E c \in Callers :
        /\ calls[c].method = "createEvents"
        /\ calls[c].pc = "threw"
        /\ calls[c].error = "ConnectionError"
        /\ Len(LoggedCalls(c)) = 1
        /\ LoggedCalls(c)[1].outcome = "ConnectionError"

\* The number of bytes of the UTF-8 encoding of a string of UTF-16 code
\* units: one per unit, one more from U+0080, one more from U+0800, and a
\* surrogate pair takes four bytes, not six.
Utf8Length(s) ==
    Len(s)
    + Cardinality({i \in 1..Len(s) : s[i] >= 128})
    + Cardinality({i \in 1..Len(s) : s[i] >= 2048})
    - 2 * Cardinality({i \in 1..(Len(s) - 1) :
                          IsHighSurrogate(s[i]) /\ IsLowSurrogate(s[i + 1])})

\* The type each create method writes
TypeOfMethod(method) ==
    CASE method \in {"createEvent", "createEvents"} -> S("EVENT")
      [] method \in {"createDispatchJob", "createDispatchJobs"} -> S("DISPATCH_JOB")
      [] method \in {"createAuditLog", "createAuditLogs"} -> S("AUDIT_LOG")

\* C9: every message the manager builds has created_at equal to updated_at,
\* client_id equal to the client id given at construction, payload_size equal
\* to the UTF-8 byte length of its payload, and the type of the create method
\* that built it.
C9_MessageFields ==
    \A k \in 1..Len(driverLog) :
        \A i \in 1..Len(driverLog[k].messages) :
            LET m == driverLog[k].messages[i]
            IN  /\ m.created_at = m.updated_at
                /\ m.client_id = clientId
                /\ m.payload_size = Utf8Length(m.payload)
                /\ m.type = TypeOfMethod(calls[driverLog[k].by].method)

C9_Witness ==
    \E k \in 1..Len(driverLog) :
        /\ calls[driverLog[k].by].method = "createDispatchJob"
        /\ driverLog[k].messages[1].payload_size > Len(driverLog[k].messages[1].payload)

\* The headers mapping itself when it has a key, null when it has none
NonEmptyHeaders(dto) == IF dto.headers = EmptyObj THEN Null ELSE dto.headers

\* C10 as stated: for each of the three message types, in single and batch
\* creates, the headers of the message handed to the driver are the DTO's
\* headers when that mapping has a key, and null when it is empty.
C10_HeadersOfEveryType ==
    \A k \in 1..Len(driverLog) :
        \A i \in 1..Len(driverLog[k].messages) :
            driverLog[k].messages[i].headers = NonEmptyHeaders(calls[driverLog[k].by].input[i])

\* C10, amended: for Event and AuditLog messages, in single and batch
\* creates, the headers of the message are the DTO's headers when that
\* mapping has a key and null when it is empty; for DispatchJob messages the
\* headers of the message are always null, and the job's headers travel in
\* the payload.
C10_HeadersOfEventAndAuditLog ==
    \A k \in 1..Len(driverLog) :
        \A i \in 1..Len(driverLog[k].messages) :
            LET method == calls[driverLog[k].by].method
                dto == calls[driverLog[k].by].input[i]
                m == driverLog[k].messages[i]
            IN  IF method \in {"createDispatchJob", "createDispatchJobs"}
                THEN /\ m.headers = Null
                     /\ dto.headers # EmptyObj =>
                            m.payload = JSONStringify(DispatchJobToPayload(dto))
                ELSE m.headers = NonEmptyHeaders(dto)

C10_Witness ==
    \E k \in 1..Len(driverLog) :
        /\ calls[driverLog[k].by].method = "createAuditLogs"
        /\ Len(driverLog[k].messages) = 2
        /\ driverLog[k].messages[1].headers = Null
        /\ driverLog[k].messages[2].headers = Obj(<< <<S("x"), Str(S("1"))>> >>)

\* The message group a create method takes from its DTO: the DTO's
\* messageGroup for events and dispatch jobs, none for audit logs
GroupOfInput(method, dto) ==
    IF method \in {"createAuditLog", "createAuditLogs"} THEN Null ELSE dto.messageGroup

\* C11: the message_group of the message handed to the driver is the DTO's
\* messageGroup for Event and DispatchJob messages (null when it was never
\* set) and always null for AuditLog messages.
C11_MessageGroup ==
    \A k \in 1..Len(driverLog) :
        \A i \in 1..Len(driverLog[k].messages) :
            driverLog[k].messages[i].message_group =
                GroupOfInput(calls[driverLog[k].by].method, calls[driverLog[k].by].input[i])

C11_Witness ==
    \E k \in 1..Len(driverLog) :
        /\ calls[driverLog[k].by].method = "createDispatchJobs"
        /\ Len(driverLog[k].messages) = 2
        /\ driverLog[k].messages[1].message_group = Null
        /\ driverLog[k].messages[2].message_group = Str(S("g"))

(***************************************************************************)
(* generate() called directly (tsid.js)                                    *)
(***************************************************************************)
\* How many TSIDs are kept, and how many times the clock moves
MaxIssued == 2

MaxAdvances == 2

\* The number of bits of the timestamp part: 64 - RANDOM_BITS
TIMESTAMP_BITS == 42

\* 2^bits as a wide integer
BigPow2(bits) == BigShiftLeft(BigShiftLeft(BigOfNat(1), bits - RANDOM_BITS), RANDOM_BITS)

\* The clock readings a run starts from: 1970-01-01 and the millisecond
\* before the custom epoch (a clock set back), the custom epoch itself, today,
\* the last two milliseconds of the 42-bit range, and the last millisecond
\* whose shifted timestamp fits the 65 bits of 13 symbols.
TsidClockStarts ==
    { BigZero,
      BigSub(CUSTOM_EPOCH, BigOfNat(1)),
      CUSTOM_EPOCH,
      ClockStart,
      BigAdd(CUSTOM_EPOCH, BigSub(BigPow2(TIMESTAMP_BITS), BigOfNat(2))),
      BigAdd(CUSTOM_EPOCH, BigSub(BigPow2(TIMESTAMP_BITS + 1), BigOfNat(1))) }

\* By how many milliseconds the clock moves at once
ClockSteps == {1, 1000}

\* Values of Math.floor(Math.random() * (RANDOM_MASK + 1))
TsidRandoms == {0, 1, 2 ^ (RANDOM_BITS - 1), RANDOM_MASK}

\* The readings from which the clock may still move: fewer than MaxAdvances
\* steps away from the reading the run began with
MovableReadings ==
    { BigAdd(start, BigOfNat(moved[1] + 1000 * moved[2])) :
          start \in TsidClockStarts,
          moved \in {m \in (0..MaxAdvances) \X (0..MaxAdvances) : m[1] + m[2] < MaxAdvances} }

MayAdvance == clock \in MovableReadings

\* A caller invokes generate(): Date.now() reads the clock, Math.random()
\* gives random, and the caller keeps the string returned.
Generate(random) ==
    /\ Len(issued) < MaxIssued
    /\ issued' = Append(issued, [at |-> clock, random |-> random, id |-> generate(clock, random)])
    /\ UNCHANGED <<clock, verdict, besideTsid>>

\* Time passes between two calls of generate().
Advance(step) ==
    /\ MayAdvance
    /\ clock' = BigAdd(clock, BigOfNat(step))
    /\ UNCHANGED <<issued, verdict, besideTsid>>

InitTsid ==
    /\ clock \in TsidClockStarts
    /\ issued = <<>>
    /\ verdict = Undefined
    /\ ManagerUnused
    /\ DtoUnused
    /\ ClientUnused
    /\ AuthUnused

NextTsid ==
    \/ \E random \in TsidRandoms : Generate(random)
    \/ \E step \in ClockSteps : Advance(step)

SpecTsid == InitTsid /\ [][NextTsid]_vars

\* The characters 0123456789ABCDEFGHJKMNPQRSTVWXYZ
CrockfordSymbols == {S("0123456789ABCDEFGHJKMNPQRSTVWXYZ")[j] : j \in 1..32}

\* C19: for every clock reading at or after the custom epoch and every random
\* value in [0, 2^22), generate() returns exactly 13 characters drawn from
\* 0123456789ABCDEFGHJKMNPQRSTVWXYZ, and isValid accepts the result; leading
\* zero bits never shorten the output.
C19_ThirteenCrockfordSymbols ==
    \A k \in 1..Len(issued) :
        /\ Len(issued[k].id) = 13
        /\ \A i \in 1..Len(issued[k].id) : issued[k].id[i] \in CrockfordSymbols
        /\ isValid(issued[k].id)

C19_Witness ==
    \E k \in 1..Len(issued) :
        /\ issued[k].at = CUSTOM_EPOCH
        /\ issued[k].random = 1
        /\ issued[k].id = S("0000000000001")

\* The first clock reading whose timestamp does not fit 42 bits
RangeEnd == BigAdd(CUSTOM_EPOCH, BigPow2(42))

\* The reading lies in the 42-bit range of the timestamp part
InTimestampRange(at) == ~BigLess(at, CUSTOM_EPOCH) /\ BigLess(at, RangeEnd)

\* C20: for two ids generated at clock readings t1 < t2, both at or after the
\* epoch and within the 42-bit range, whatever the two random values, the id
\* of t1 is lexicographically smaller than the id of t2.
C20_OrderedByTime ==
    \A j, k \in 1..Len(issued) :
        /\ BigLess(issued[j].at, issued[k].at)
        /\ InTimestampRange(issued[j].at)
        /\ InTimestampRange(issued[k].at)
        => StrLess(issued[j].id, issued[k].id)

C20_Witness ==
    \E j, k \in 1..Len(issued) :
        /\ InTimestampRange(issued[j].at)
        /\ issued[k].at = BigAdd(issued[j].at, BigOfNat(1))
        /\ InTimestampRange(issued[k].at)
        /\ issued[j].random = RANDOM_MASK
        /\ issued[k].random = 0
        /\ StrLess(issued[j].id, issued[k].id)

(***************************************************************************)
(* The three builders used directly                                        *)
(***************************************************************************)
\* The class an instance was constructed by
ClassOf(dto) ==
    IF "type" \in DOMAIN dto THEN "CreateEventDto"
    ELSE IF "code" \in DOMAIN dto THEN "CreateDispatchJobDto"
    ELSE "CreateAuditLogDto"

EventWithMethods ==
    { "withSource", "withSubject", "withCorrelationId", "withCausationId",
      "withDeduplicationId", "withMessageGroup", "withHeaders", "withContextData" }

DispatchJobWithMethods ==
    { "withSubject", "withCorrelationId", "withEventId", "withMetadata", "withHeaders",
      "withPayloadContentType", "withDataOnly", "withMessageGroup", "withSequence",
      "withTimeoutSeconds", "withMaxRetries", "withRetryStrategy", "withScheduledFor",
      "withExpiresAt", "withIdempotencyKey", "withExternalId" }

AuditLogWithMethods ==
    { "withOperationData", "withPrincipalId", "withPerformedAt", "withSource",
      "withCorrelationId", "withMetadata", "withHeaders" }

WithMethods(dto) ==
    CASE ClassOf(dto) = "CreateEventDto"       -> EventWithMethods
      [] ClassOf(dto) = "CreateDispatchJobDto" -> DispatchJobWithMethods
      [] ClassOf(dto) = "CreateAuditLogDto"    -> AuditLogWithMethods

\* this[method](v) on a CreateEventDto
EventWith(this, method, v) ==
    CASE method = "withSource" -> EventWithSource(this, v)
      [] method = "withSubject" -> EventWithSubject(this, v)
      [] method = "withCorrelationId" -> EventWithCorrelationId(this, v)
      [] method = "withCausationId" -> EventWithCausationId(this, v)
      [] method = "withDeduplicationId" -> EventWithDeduplicationId(this, v)
      [] method = "withMessageGroup" -> EventWithMessageGroup(this, v)
      [] method = "withHeaders" -> EventWithHeaders(this, v)
      [] method = "withContextData" -> EventWithContextData(this, v)

\* this[method](v) on a CreateDispatchJobDto
DispatchJobWith(this, method, v) ==
    CASE method = "withSubject" -> DispatchJobWithSubject(this, v)
      [] method = "withCorrelationId" -> DispatchJobWithCorrelationId(this, v)
      [] method = "withEventId" -> DispatchJobWithEventId(this, v)
      [] method = "withMetadata" -> DispatchJobWithMetadata(this, v)
      [] method = "withHeaders" -> DispatchJobWithHeaders(this, v)
      [] method = "withPayloadContentType" -> DispatchJobWithPayloadContentType(this, v)
      [] method = "withDataOnly" -> DispatchJobWithDataOnly(this, v)
      [] method = "withMessageGroup" -> DispatchJobWithMessageGroup(this, v)
      [] method = "withSequence" -> DispatchJobWithSequence(this, v)
      [] method = "withTimeoutSeconds" -> DispatchJobWithTimeoutSeconds(this, v)
      [] method = "withMaxRetries" -> DispatchJobWithMaxRetries(this, v)
      [] method = "withRetryStrategy" -> DispatchJobWithRetryStrategy(this, v)
      [] method = "withScheduledFor" -> DispatchJobWithScheduledFor(this, v)
      [] method = "withExpiresAt" -> DispatchJobWithExpiresAt(this, v)
      [] method = "withIdempotencyKey" -> DispatchJobWithIdempotencyKey(this, v)
      [] method = "withExternalId" -> DispatchJobWithExternalId(this, v)

\* this[method](v) on a CreateAuditLogDto
AuditLogWith(this, method, v) ==
    CASE method = "withOperationData" -> AuditLogWithOperationData(this, v)
      [] method = "withPrincipalId" -> AuditLogWithPrincipalId(this, v)
      [] method = "withPerformedAt" -> AuditLogWithPerformedAt(this, v)
      [] method = "withSource" -> AuditLogWithSource(this, v)
      [] method = "withCorrelationId" -> AuditLogWithCorrelationId(this, v)
      [] method = "withMetadata" -> AuditLogWithMetadata(this, v)
      [] method = "withHeaders" -> AuditLogWithHeaders(this, v)

\* this[method](v), whatever the class of this
ApplyWith(this, method, v) ==
    CASE ClassOf(this) = "CreateEventDto"       -> EventWith(this, method, v)
      [] ClassOf(this) = "CreateDispatchJobDto" -> DispatchJobWith(this, method, v)
      [] ClassOf(this) = "CreateAuditLogDto"    -> AuditLogWith(this, method, v)

\* this.toPayload() with the clock reading taken when the instance was created
ToPayloadOf_AtCreation(this, dateNow) ==
    CASE ClassOf(this) = "CreateEventDto"       -> EventToPayload(this)
      [] ClassOf(this) = "CreateDispatchJobDto" -> DispatchJobToPayload(this)
      [] ClassOf(this) = "CreateAuditLogDto"    -> AuditLogToPayload(this, ClockStart)

\* this.toPayload() at the clock reading dateNow
ToPayloadOf(this, dateNow) ==
    CASE ClassOf(this) = "CreateEventDto"       -> EventToPayload(this)
      [] ClassOf(this) = "CreateDispatchJobDto" -> DispatchJobToPayload(this)
      [] ClassOf(this) = "CreateAuditLogDto"    -> AuditLogToPayload(this, dateNow)

\* The instances the static factories return
CreatedDtos ==
    { EventCreate(Str(S("user.registered")), Obj(<< <<S("userId"), Str(S("123"))>> >>)),
      DispatchJobCreate(Str(S("svc")), Str(S("code")), Str(S("https://x")), Str(S("{}")),
                        Str(S("pool-1"))),
      AuditLogCreate(Str(S("User")), Str(S("1")), Str(S("CREATE"))) }

\* A {key, value} entry of an event's context data
ContextEntry(k, v) == Obj(<< <<Key.key, Str(S(k))>>, <<Key.value, Str(S(v))>> >>)

\* The arguments each with* method is called with: two of its parameter type
ArgValues(method) ==
    CASE method \in {"withHeaders", "withMetadata"} ->
             { Obj(<< <<S("x"), Str(S("1"))>> >>),
               Obj(<< <<S("x"), Str(S("2"))>>, <<S("y"), Str(S("3"))>> >>) }
      [] method = "withContextData" ->
             { Arr(<< ContextEntry("k", "1") >>),
               Arr(<< ContextEntry("k", "2"), ContextEntry("j", "3") >>) }
      [] method = "withOperationData" ->
             { EmptyObj, Obj(<< <<S("email"), Str(S("a@b"))>> >>) }
      [] method = "withDataOnly" -> { Bool(FALSE), Bool(TRUE) }
      [] method \in {"withTimeoutSeconds", "withMaxRetries", "withSequence"} ->
             { Num(0), Num(7) }
      [] method \in {"withScheduledFor", "withExpiresAt", "withPerformedAt"} ->
             { DateOf(CUSTOM_EPOCH), DateOf(BigOfParts(1700000, 1)) }
      [] method = "withSubject" -> { Str(S("v")), Str(<<>>) }
      [] OTHER -> { Str(S("v")), Str(S("w")) }

\* The names under which a caller holds instances: d from a static factory,
\* a and b from with* calls
DtoSlots == {"d", "a", "b"}

\* The next name a with* result is bound to
FreeSlot == IF held["a"] = Undefined THEN "a" ELSE "b"

\* The result bound to slot while the receiver is replaced by it as well
Bind_OverReceiver(slot, from, instance) ==
    [held EXCEPT ![slot] = instance, ![from] = [held[from] EXCEPT !.dto = instance.dto]]

\* const slot = from.withX(v): the new instance gets a name of its own
Bind(slot, from, instance) == [held EXCEPT ![slot] = instance]

\* The caller calls held[from].dto[method](v) and keeps the instance returned.
With(from) ==
    /\ held[from] # Undefined
    /\ held["b"] = Undefined
    /\ \E method \in WithMethods(held[from].dto) :
          \E v \in ArgValues(method) :
              held' = Bind(FreeSlot, from,
                           [ dto    |-> ApplyWith(held[from].dto, method, v),
                             from   |-> from,
                             method |-> method,
                             arg    |-> v ])
    /\ UNCHANGED <<clock, out, besideDto>>

\* What the call before this one returned, when it was made on the same instance
EarlierOf(slot) ==
    IF out # Undefined /\ out.of = slot
    THEN [at |-> out.at, payload |-> out.payload]
    ELSE Undefined

\* The caller calls held[slot].dto.toPayload() and keeps the mapping returned
\* next to the one its previous call on that instance returned.
ToPayload(slot) ==
    /\ held[slot] # Undefined
    /\ out' = [ of      |-> slot,
                at      |-> clock,
                payload |-> ToPayloadOf(held[slot].dto, clock),
                earlier |-> EarlierOf(slot) ]
    /\ UNCHANGED <<clock, held, besideDto>>

InitDto ==
    /\ clock = ClockStart
    /\ ManagerUnused
    /\ TsidUnused
    /\ ClientUnused
    /\ AuthUnused
    /\ \E created \in CreatedDtos :
          held = [s \in DtoSlots |->
                     IF s = "d"
                     THEN [dto |-> created, from |-> "none", method |-> "create", arg |-> Null]
                     ELSE Undefined]
    /\ out = Undefined

NextDto ==
    \/ \E from \in DtoSlots : With(from)
    \/ \E slot \in DtoSlots : ToPayload(slot)
    \/ Tick

SpecDto == InitDto /\ [][NextDto]_vars

(***************************************************************************)
(* Properties of the builders                                              *)
(***************************************************************************)
\* The field each with* method is named after
FieldOf ==
    [ withSource |-> "source", withSubject |-> "subject",
      withCorrelationId |-> "correlationId", withCausationId |-> "causationId",
      withDeduplicationId |-> "deduplicationId", withMessageGroup |-> "messageGroup",
      withHeaders |-> "headers", withContextData |-> "contextData",
      withEventId |-> "eventId", withMetadata |-> "metadata",
      withPayloadContentType |-> "payloadContentType", withDataOnly |-> "dataOnly",
      withSequence |-> "sequence", withTimeoutSeconds |-> "timeoutSeconds",
      withMaxRetries |-> "maxRetries", withRetryStrategy |-> "retryStrategy",
      withScheduledFor |-> "scheduledFor", withExpiresAt |-> "expiresAt",
      withIdempotencyKey |-> "idempotencyKey", withExternalId |-> "externalId",
      withOperationData |-> "operationData", withPrincipalId |-> "principalId",
      withPerformedAt |-> "performedAt" ]

\* The slots whose instance a with* call made
Derived == {s \in DtoSlots : held[s] # Undefined /\ held[s].method # "create"}

\* Two instances made from the same receiver by different methods: neither
\* has the value the other was given
BranchesApart ==
    \A s, t \in Derived :
        held[s].from = held[t].from /\ held[s].method # held[t].method
        => held[t].dto[FieldOf[held[s].method]] = held[held[s].from].dto[FieldOf[held[s].method]]

\* C12: no with* method of the three builders changes the instance it is
\* called on: whatever with* calls branch from a shared instance d, every
\* field of d, the contents of its headers, metadata and contextData
\* included, is what it was before, and two branches built from d never see
\* each other's values.
C12_WithLeavesReceiver ==
    /\ [][\A s \in DtoSlots : held[s] # Undefined => held'[s] = held[s]]_vars
    /\ []BranchesApart

C12_Witness ==
    /\ held["a"] # Undefined
    /\ held["b"] # Undefined
    /\ held["a"].from = "d"
    /\ held["b"].from = "d"
    /\ held["a"].method = "withContextData"
    /\ held["b"].method = "withHeaders"
    /\ held["d"].dto.contextData = Arr(<<>>)
    /\ held["d"].dto.headers = EmptyObj
    /\ held["b"].dto.contextData = Arr(<<>>)
    /\ held["a"].dto.headers = EmptyObj
    /\ held["a"].dto.contextData # Arr(<<>>)

\* The keys of a mapping, as a set
KeySet(o) == {o.e[i][1] : i \in 1..Len(o.e)}

\* merged holds every key of newer with newer's value, every other key of
\* older with older's value, and no further key
IsShallowMerge(merged, older, newer) ==
    /\ KeySet(merged) = KeySet(older) \cup KeySet(newer)
    /\ Len(merged.e) = Cardinality(KeySet(merged))
    /\ \A k \in KeySet(newer) : Get(merged, k) = Get(newer, k)
    /\ \A k \in KeySet(older) \ KeySet(newer) : Get(merged, k) = Get(older, k)

\* C13: withHeaders and withMetadata shallow-merge: the result maps every key
\* of the argument to the argument's value and every other previously present
\* key to its previous value, a repeated key taking the newer value;
\* withContextData appends: the result list is the previous list followed by
\* the argument list, in order.
C13_MergeAndAppend ==
    \A s \in Derived :
        LET result   == held[s].dto
            receiver == held[held[s].from].dto
        IN  /\ held[s].method = "withHeaders" =>
                  IsShallowMerge(result.headers, receiver.headers, held[s].arg)
            /\ held[s].method = "withMetadata" =>
                  IsShallowMerge(result.metadata, receiver.metadata, held[s].arg)
            /\ held[s].method = "withContextData" =>
                  /\ Len(result.contextData.a) =
                         Len(receiver.contextData.a) + Len(held[s].arg.a)
                  /\ \A i \in 1..Len(receiver.contextData.a) :
                         result.contextData.a[i] = receiver.contextData.a[i]
                  /\ \A i \in 1..Len(held[s].arg.a) :
                         result.contextData.a[Len(receiver.contextData.a) + i] = held[s].arg.a[i]

C13_Witness ==
    /\ held["b"] # Undefined
    /\ held["a"].method = "withMetadata"
    /\ held["b"].method = "withMetadata"
    /\ held["b"].from = "a"
    /\ HasKey(held["a"].dto.metadata, S("y"))
    /\ Get(held["a"].dto.metadata, S("x")) = Str(S("2"))
    /\ held["b"].arg = Obj(<< <<S("x"), Str(S("1"))>> >>)
    /\ Get(held["b"].dto.metadata, S("x")) = Str(S("1"))
    /\ Get(held["b"].dto.metadata, S("y")) = Str(S("3"))

\* The methods that merge or append instead of replacing
MergeMethods == {"withHeaders", "withMetadata", "withContextData"}

\* C14: for every non-merge field X of every DTO variant, withX(v) returns an
\* instance whose X equals v and whose every other field equals the
\* receiver's, previously set values such as dataOnly = false,
\* timeoutSeconds = 0 or maxRetries = 0 included, which are not reset to
\* defaults; calling withX twice leaves X at the later value.
C14_WithSetsOneField ==
    \A s \in Derived :
        held[s].method \notin MergeMethods =>
            LET result   == held[s].dto
                receiver == held[held[s].from].dto
                X        == FieldOf[held[s].method]
            IN  /\ DOMAIN result = DOMAIN receiver
                /\ result[X] = held[s].arg
                /\ \A other \in DOMAIN receiver \ {X} : result[other] = receiver[other]

C14_Witness ==
    /\ held["b"] # Undefined
    /\ held["b"].from = "a"
    /\ held["a"].method = "withDataOnly"
    /\ held["a"].arg = Bool(FALSE)
    /\ held["b"].method = "withTimeoutSeconds"
    /\ held["b"].arg = Num(0)
    /\ held["b"].dto.dataOnly = Bool(FALSE)
    /\ held["b"].dto.timeoutSeconds = Num(0)
    /\ held["b"].dto.maxRetries = Num(5)

\* The optional keys of each payload
OptionalKeys(dto) ==
    CASE ClassOf(dto) = "CreateEventDto" ->
             { "source", "subject", "correlationId", "causationId", "deduplicationId",
               "messageGroup", "contextData" }
      [] ClassOf(dto) = "CreateDispatchJobDto" ->
             { "subject", "correlationId", "eventId", "metadata", "headers", "messageGroup",
               "sequence", "retryStrategy", "scheduledFor", "expiresAt", "idempotencyKey",
               "externalId" }
      [] ClassOf(dto) = "CreateAuditLogDto" ->
             { "operationData", "principalId", "source", "correlationId", "metadata" }

\* The keys every payload of the class has
RequiredKeys(dto) ==
    CASE ClassOf(dto) = "CreateEventDto" -> { "specVersion", "type", "data" }
      [] ClassOf(dto) = "CreateDispatchJobDto" ->
             { "source", "code", "targetUrl", "payload", "payloadContentType",
               "dispatchPoolId", "dataOnly", "timeoutSeconds", "maxRetries" }
      [] ClassOf(dto) = "CreateAuditLogDto" ->
             { "entityType", "entityId", "operation", "performedAt" }

\* The field holds a value: not null, and not an empty metadata or headers
\* mapping or contextData list
IsSet(dto, field) ==
    /\ dto[field] \notin {Null, Undefined}
    /\ field \in {"metadata", "headers"} => dto[field].e # <<>>
    /\ field = "contextData" => dto[field].a # <<>>

\* The text {"userId":"123"}
UserIdJson == Str(S("{\"userId\":\"123\"}"))

\* C15: toPayload of any DTO never emits a key whose value is null or
\* undefined: an optional field that is null, absent or empty (an empty
\* metadata or headers mapping or contextData list) is omitted entirely, and
\* an optional key is present exactly when its field was set; in particular
\* CreateEventDto.create(type, data).toPayload() has exactly the keys
\* specVersion, type and data, with data the JSON string of the mapping.
C15_PayloadHasNoNulls ==
    out # Undefined =>
        LET dto == held[out.of].dto
        IN  /\ \A i \in 1..Len(out.payload.e) : out.payload.e[i][2] \notin {Null, Undefined}
            /\ \A k \in OptionalKeys(dto) : HasKey(out.payload, Key[k]) <=> IsSet(dto, k)
            /\ \A k \in RequiredKeys(dto) : HasKey(out.payload, Key[k])
            /\ KeySet(out.payload) = {Key[k] : k \in OptionalKeys(dto) \cup RequiredKeys(dto)}
                                        \ {Key[k] : k \in {f \in OptionalKeys(dto) : ~IsSet(dto, f)}}
            /\ (out.of = "d" /\ ClassOf(dto) = "CreateEventDto") =>
                  /\ ObjectKeys(out.payload) = <<Key.specVersion, Key.type, Key.data>>
                  /\ Get(out.payload, Key.data) = UserIdJson

C15_Witness ==
    /\ out # Undefined
    /\ out.of = "b"
    /\ held["b"].from = "a"
    /\ held["a"].method = "withSource"
    /\ held["b"].method = "withContextData"
    /\ ObjectKeys(out.payload) =
           <<S("specVersion"), S("type"), S("source"), S("data"), S("contextData")>>

\* The argument of the latest call of method among the calls that made the
\* instance in slot, undefined when there was none
RECURSIVE LastArg(_, _)
LastArg(slot, method) ==
    IF held[slot].method = method THEN held[slot].arg
    ELSE IF held[slot].from = "none" THEN Undefined
    ELSE LastArg(held[slot].from, method)

\* The value last given to method, or the default when it was never called
SetOrDefault(slot, method, default) ==
    IF LastArg(slot, method) = Undefined THEN default ELSE LastArg(slot, method)

\* The content type of a job's payload when none was given
DefaultContentType == Str(S("application/json"))

\* C16: every DispatchJob payload contains the keys payloadContentType,
\* dataOnly, timeoutSeconds and maxRetries; each holds its default
\* (application/json, true, 30, 5) when the corresponding with* method was
\* never called, and otherwise the value most recently set.
C16_DispatchJobDefaults ==
    (out # Undefined /\ ClassOf(held[out.of].dto) = "CreateDispatchJobDto") =>
        /\ HasKey(out.payload, Key.payloadContentType)
        /\ HasKey(out.payload, Key.dataOnly)
        /\ HasKey(out.payload, Key.timeoutSeconds)
        /\ HasKey(out.payload, Key.maxRetries)
        /\ Get(out.payload, Key.payloadContentType) =
               SetOrDefault(out.of, "withPayloadContentType", DefaultContentType)
        /\ Get(out.payload, Key.dataOnly) = SetOrDefault(out.of, "withDataOnly", Bool(TRUE))
        /\ Get(out.payload, Key.timeoutSeconds) =
               SetOrDefault(out.of, "withTimeoutSeconds", Num(30))
        /\ Get(out.payload, Key.maxRetries) = SetOrDefault(out.of, "withMaxRetries", Num(5))

C16_Witness ==
    /\ out # Undefined
    /\ out.of = "b"
    /\ held["b"].from = "a"
    /\ held["a"].method = "withTimeoutSeconds"
    /\ held["a"].arg = Num(7)
    /\ held["b"].method = "withTimeoutSeconds"
    /\ held["b"].arg = Num(0)
    /\ Get(out.payload, S("timeoutSeconds")) = Num(0)
    /\ Get(out.payload, S("maxRetries")) = Num(5)
    /\ Get(out.payload, S("dataOnly")) = Bool(TRUE)

\* C17: every AuditLog payload contains performedAt: it is the time given to
\* the last withPerformedAt call when one was made, and otherwise the clock
\* value at the moment toPayload is called, not the clock value when the DTO
\* was created.
C17_PerformedAt ==
    (out # Undefined /\ ClassOf(held[out.of].dto) = "CreateAuditLogDto") =>
        /\ HasKey(out.payload, Key.performedAt)
        /\ Get(out.payload, Key.performedAt) =
               IF LastArg(out.of, "withPerformedAt") = Undefined
               THEN Str(toISOString(out.at))
               ELSE Str(toISOString(LastArg(out.of, "withPerformedAt").ms))

C17_Witness ==
    /\ out # Undefined
    /\ out.of = "a"
    /\ held["a"].method = "withPrincipalId"
    /\ ClassOf(held["a"].dto) = "CreateAuditLogDto"
    /\ out.at = BigAdd(ClockStart, BigOfNat(1))
    /\ Get(out.payload, Key.performedAt) = Str(S("2026-11-05T10:55:23.457Z"))

\* The mapping without the key k
WithoutKey(o, k) == Obj(SelectSeq(o.e, LAMBDA entry : entry[1] # k))

\* A call of toPayload leaves every instance as it was
ToPayloadLeavesFields == out' # out => held' = held

\* C18 as stated: toPayload is pure and side-effect-free for all three DTO
\* variants: calling it changes no field of the DTO, and two calls on the
\* same DTO return equal mappings regardless of what happens between the
\* calls.
C18_ToPayloadPure ==
    /\ [][ToPayloadLeavesFields]_vars
    /\ []((out # Undefined /\ out.earlier # Undefined) => out.payload = out.earlier.payload)

\* C18, amended: calling toPayload changes no field of the DTO; two calls on
\* the same CreateEventDto or CreateDispatchJobDto, and two calls on the
\* same CreateAuditLogDto whose performedAt was set or that read the same
\* clock value, return equal mappings; two calls on a CreateAuditLogDto
\* whose performedAt was never set return mappings equal in every key but
\* performedAt, which holds the clock value of each call.
C18_ToPayloadPureButForClock ==
    /\ [][ToPayloadLeavesFields]_vars
    /\ []((out # Undefined /\ out.earlier # Undefined) =>
            IF \/ ClassOf(held[out.of].dto) # "CreateAuditLogDto"
               \/ held[out.of].dto.performedAt # Null
               \/ out.at = out.earlier.at
            THEN out.payload = out.earlier.payload
            ELSE /\ WithoutKey(out.payload, Key.performedAt) =
                       WithoutKey(out.earlier.payload, Key.performedAt)
                 /\ Get(out.payload, Key.performedAt) = Str(toISOString(out.at))
                 /\ Get(out.earlier.payload, Key.performedAt) =
                       Str(toISOString(out.earlier.at)))

C18_Witness ==
    /\ out # Undefined
    /\ out.earlier # Undefined
    /\ out.of = "d"
    /\ held["a"] # Undefined
    /\ ClassOf(held["d"].dto) = "CreateAuditLogDto"
    /\ out.earlier.at = ClockStart
    /\ out.at = BigAdd(ClockStart, BigOfNat(1))
    /\ out.payload # out.earlier.payload
    /\ WithoutKey(out.payload, Key.performedAt) =
           WithoutKey(out.earlier.payload, Key.performedAt)

(***************************************************************************)
(* isValid() called directly (tsid.js)                                     *)
(***************************************************************************)
\* The first twelve characters of the strings isValid is called with, and
\* one of eleven
ValidatePrefixes ==
    { S("000000000000"), S("0123456789AB"), S("abcdefghjkmn"), S("ZZZZZZZZZZZZ"),
      S("pqrstvwxyzPQ"), S("00000000000") }

\* Their last character: symbols in both cases, the excluded letters, other
\* ASCII characters, and text outside ASCII (sharp s, e-acute, dotless i,
\* long s, the Kelvin sign, the ligatures ff and st)
ValidateLastUnits ==
    { 48, 90, 122, 73, 76, 79, 85, 105, 108, 111, 117, 45, 32, 64, 91, 96, 123,
      223, 233, 305, 383, 8490, 64256, 64262 }

\* The strings isValid is called with, the empty one and one of fourteen
\* characters among them
ValidateInputs ==
    { prefix \o <<c>> : prefix \in ValidatePrefixes, c \in ValidateLastUnits }
    \cup { <<>>, S("00000000000000") }

\* A caller invokes isValid(tsid) and keeps the answer.
Validate(tsid) ==
    /\ verdict' = [tsid |-> tsid, valid |-> isValid(tsid)]
    /\ UNCHANGED <<clock, issued, besideTsid>>

InitValid ==
    /\ clock = ClockStart
    /\ issued = <<>>
    /\ verdict = Undefined
    /\ ManagerUnused
    /\ DtoUnused
    /\ ClientUnused
    /\ AuthUnused

NextValid == \E tsid \in ValidateInputs : Validate(tsid)

SpecValid == InitValid /\ [][NextValid]_vars

\* The 32 symbols and the lower case of the letters among them
SymbolsOfEitherCase ==
    {S("0123456789ABCDEFGHJKMNPQRSTVWXYZ")[j] : j \in 1..32}
    \cup {S("abcdefghjkmnpqrstvwxyz")[j] : j \in 1..22}

\* C21: isValid(s) returns true if and only if s has exactly 13 characters
\* and every character, compared case-insensitively, is one of the 32
\* alphabet symbols; strings containing I, L, O or U in any case, and strings
\* of any other length, are rejected, and no temporal or existence check is
\* made.
C21_IsValidIffThirteenSymbols ==
    verdict # Undefined =>
        (verdict.valid <=>
            /\ Len(verdict.tsid) = 13
            /\ \A i \in 1..Len(verdict.tsid) : verdict.tsid[i] \in SymbolsOfEitherCase)

\* C30: for every clock value, values before the custom epoch 1577836800000
\* (a negative elapsed time) included, generate() returns a 13-character
\* string that isValid accepts; a negative elapsed time does not produce a
\* shorter, longer or out-of-alphabet identifier.
C30_ValidBeforeEpoch ==
    \A k \in 1..Len(issued) :
        BigLess(issued[k].at, CUSTOM_EPOCH) =>
            /\ Len(issued[k].id) = 13
            /\ \A i \in 1..Len(issued[k].id) : issued[k].id[i] \in CrockfordSymbols
            /\ isValid(issued[k].id)

C30_Witness ==
    \E k \in 1..Len(issued) :
        /\ issued[k].at = BigSub(CUSTOM_EPOCH, BigOfNat(1))
        /\ issued[k].random = 0
        /\ issued[k].id = S("ZZZZZZZZW0000")

\* C22: the identifiers assigned within one batch create call are pairwise
\* distinct, also when all of them are generated within the same millisecond.
C22_BatchIdsDistinct ==
    \A k \in 1..Len(driverLog) :
        \A i, j \in 1..Len(driverLog[k].messages) :
            i # j => driverLog[k].messages[i].id # driverLog[k].messages[j].id

(***************************************************************************)
(* Interleaved invocations on one manager                                  *)
(***************************************************************************)
\* Each create method runs without interruption up to its await on the
\* driver; another caller may start or resume while it waits.
\* The batches the interleaved callers pass: two different events
SharedBatches == {events \in [1..2 -> EventSamples] : events[1] # events[2]}

\* createEvents called with one of these batches
createEventsShared(c) ==
    /\ calls[c].pc = "idle"
    /\ \E events \in SharedBatches :
           \E ts \in Readings(Len(events)), randoms \in [1..Len(events) -> RandomValues] :
               CreateBatch(c, "createEvents", events, ts, EventMessages(events, ts, randoms))

NextShared ==
    \/ \E c \in Callers : createEvent(c)
    \/ \E c \in Callers : createEventsShared(c)
    \/ \E c \in Callers : InsertFulfilled(c)
    \/ \E c \in Callers, e \in DriverErrors : InsertRejected(c, e)
    \/ \E c \in Callers : Collect(c)
    \/ Tick

SpecShared == Init /\ [][NextShared]_vars

\* The batch method that serialises its DTOs as the given method does
BatchOf(method) ==
    CASE method \in {"createEvent", "createEvents"} -> "createEvents"
      [] method \in {"createDispatchJob", "createDispatchJobs"} -> "createDispatchJobs"
      [] method \in {"createAuditLog", "createAuditLogs"} -> "createAuditLogs"

\* The driver call d carries exactly the messages of the invocation of its
\* caller, and is pending exactly while that invocation awaits it.
OwnDriverCall(d) ==
    LET call == calls[d.by]
    IN  /\ Len(d.messages) = Len(call.input)
        /\ \A i \in 1..Len(d.messages) :
              /\ d.messages[i].id = call.ids[i]
              /\ d.messages[i].client_id = clientId
              /\ d.messages[i].payload =
                    ExpectedPayload(BatchOf(call.method), call.input[i], call.times[i])
        /\ (d.outcome = "pending") <=> (call.pc = "awaiting")

\* The invocation of caller c returned the ids it generated itself
OwnIdsReturned(c) ==
    calls[c].pc = "returned" =>
        IF calls[c].method \in SingleMethods
        THEN calls[c].result = Str(calls[c].ids[1])
        ELSE /\ calls[c].result.t = "array"
             /\ Len(calls[c].result.a) = Len(calls[c].ids)
             /\ \A i \in 1..Len(calls[c].ids) : calls[c].result.a[i] = Str(calls[c].ids[i])

\* C23: when create calls on one shared manager interleave at their awaits,
\* each call makes its own driver invocation with only the messages built
\* from its own input and returns only its own ids, and the client id of the
\* manager never changes.
C23_InterleavedCallsApart ==
    /\ [](/\ \A k \in 1..Len(driverLog) : OwnDriverCall(driverLog[k])
          /\ \A c \in Callers :
                /\ OwnIdsReturned(c)
                /\ (ReachedDriver(c) /\ calls[c].input # <<>>) => Len(LoggedCalls(c)) = 1)
    /\ [][clientId' = clientId]_vars

\* Caller b began first and still awaits its driver call; caller a began
\* after it, with another input, and has already returned.
C23_Witness ==
    /\ Len(driverLog) = 2
    /\ driverLog[1].by = "b" /\ driverLog[2].by = "a"
    /\ calls["b"].pc = "awaiting" /\ calls["a"].pc = "returned"
    /\ calls["a"].method = "createEvents" /\ Len(calls["a"].input) = 2
    /\ calls["b"].method = "createEvent"

(***************************************************************************)
(* FlowCatalystClient (client.ts)                                          *)
(***************************************************************************)
\* The largest retryAttempts option given to the constructor
MaxRetryAttempts == 1

\* The retryAttempts option: not given, or a number
RetryAttemptsOptions == {Undefined} \cup {Num(n) : n \in 0..MaxRetryAttempts}

\* constructor: timeout ?? 30000, retryAttempts ?? 3, retryDelay ?? 100, and
\* the mode chosen by 'accessToken' in config
ResolveConfig(mode, retryAttempts) ==
    [mode          |-> mode,
     timeout       |-> 30000,
     retryAttempts |-> Nullish(retryAttempts, Num(3)).n,
     retryDelay    |-> 100]

Modes == {"userToken", "clientCredentials"}

\* What the wrapped call resolves to: the status of result.response, and
\* whether result.error is defined
Responses ==
    { [status |-> 200, error |-> FALSE], [status |-> 200, error |-> TRUE],
      [status |-> 401, error |-> TRUE],  [status |-> 404, error |-> TRUE],
      [status |-> 429, error |-> TRUE],  [status |-> 503, error |-> TRUE] }

\* What the wrapped call rejects with
Rejections == {"AbortError", "TypeError"}

\* What the token manager's getAccessToken / refreshToken may end with
AuthErrors == {"invalid_credentials", "token_fetch_failed"}

Ok == [kind |-> "ok", type |-> "none"]

Err(type) == [kind |-> "err", type |-> type]

\* response.ok
ResponseOk(status) == status >= 200 /\ status <= 299

\* isRetryableStatus
isRetryableStatus(status) == status \in {408, 429, 502, 503, 504}

\* mapHttpStatusToError: the type of the error built for the status
mapHttpStatusToError(status) ==
    CASE status = 401 -> Err("token_expired")
      [] status = 403 -> Err("forbidden")
      [] status = 404 -> Err("not_found")
      [] status = 409 -> Err("conflict")
      [] status = 422 -> Err("validation")
      [] status = 429 -> Err("rate_limited")
      [] OTHER -> Err("http_error")

\* The 401 branch is taken whatever the attempt
MayRefresh_AnyAttempt(status, attempt, canRefreshToken) ==
    status = 401 /\ canRefreshToken /\ config.mode = "clientCredentials"

\* status === 401 && attempt === 0 && canRefreshToken && this.tokenManager
MayRefresh(status, attempt, canRefreshToken) ==
    status = 401 /\ attempt = 0 /\ canRefreshToken /\ config.mode = "clientCredentials"

\* executeWithRetry up to its await: executeWithTimeout arms the timer and
\* invokes the wrapped call with the Authorization header of the token.
Invoke(token, attempt, canRefreshToken) ==
    /\ fnLog' = Append(fnLog, [attempt |-> attempt, token |-> token,
                               state |-> "pending", status |-> 0])
    /\ request' = [request EXCEPT !.pc = "calling", !.token = token, !.attempt = attempt,
                                  !.canRefreshToken = canRefreshToken,
                                  !.timerFired = FALSE, !.delay = 0]

\* The request ends with the given result
EndWith(result) == request' = [request EXCEPT !.pc = "done", !.result = result]

\* The latest invocation of the wrapped call settles
SettleFn(state, status) ==
    [fnLog EXCEPT ![Len(fnLog)].state = state, ![Len(fnLog)].status = status]

\* request(fn): the token is asked of the provider (user token mode) or of
\* the token manager (client credentials mode).
Request ==
    /\ request.pc = "idle"
    /\ IF config.mode = "userToken"
       THEN /\ request' = [request EXCEPT !.pc = "provider"]
            /\ UNCHANGED managerLog
       ELSE /\ request' = [request EXCEPT !.pc = "token"]
            /\ managerLog' = Append(managerLog, "getAccessToken")
    /\ UNCHANGED <<clock, config, fnLog, besideClient>>

\* tokenProvider() resolves: executeWithRetry(fn, token, 0, false)
ProviderResolves ==
    /\ request.pc = "provider"
    /\ Invoke("u", 0, FALSE)
    /\ UNCHANGED <<clock, config, managerLog, besideClient>>

\* tokenProvider() rejects: authError.tokenExpired
ProviderRejects ==
    /\ request.pc = "provider"
    /\ EndWith(Err("token_expired"))
    /\ UNCHANGED <<clock, config, fnLog, managerLog, besideClient>>

\* getAccessToken() gives a token: executeWithRetry(fn, token, 0, true)
TokenGranted ==
    /\ request.pc = "token"
    /\ Invoke("t0", 0, TRUE)
    /\ UNCHANGED <<clock, config, managerLog, besideClient>>

\* refreshToken() gives a new token: executeWithRetry(fn, newToken, attempt + 1, ...)
TokenRefreshed ==
    /\ request.pc = "refreshing"
    /\ Invoke("t1", request.attempt + 1, request.canRefreshToken)
    /\ UNCHANGED <<clock, config, managerLog, besideClient>>

\* getAccessToken() or refreshToken() ends with the error e, which the
\* request passes on (mapErr) without reaching andThen
TokenDenied(e) ==
    /\ request.pc \in {"token", "refreshing"}
    /\ EndWith(Err(e))
    /\ UNCHANGED <<clock, config, fnLog, managerLog, besideClient>>

\* The wrapped call resolves; the finally clears the timer, and the andThen
\* of executeWithRetry decides on the response.
FnResolves(response) ==
    /\ request.pc = "calling"
    /\ fnLog' = SettleFn("resolved", response.status)
    /\ IF response.error \/ ~ResponseOk(response.status)
       THEN IF MayRefresh(response.status, request.attempt, request.canRefreshToken)
            THEN /\ managerLog' = Append(managerLog, "refreshToken")
                 /\ request' = [request EXCEPT !.pc = "refreshing"]
            ELSE IF isRetryableStatus(response.status) /\ request.attempt < config.retryAttempts
            THEN /\ request' = [request EXCEPT !.pc = "delaying",
                                  !.delay = config.retryDelay * 2^request.attempt]
                 /\ UNCHANGED managerLog
            ELSE /\ EndWith(mapHttpStatusToError(response.status))
                 /\ UNCHANGED managerLog
       ELSE /\ EndWith(Ok)
            /\ UNCHANGED managerLog
    /\ UNCHANGED <<clock, config, besideClient>>

\* The wrapped call rejects; the finally clears the timer, and the error is
\* mapped: an AbortError to httpError.timeout, anything else to httpError.network.
FnRejects(e) ==
    /\ request.pc = "calling"
    /\ fnLog' = SettleFn("rejected", 0)
    /\ EndWith(IF e = "AbortError" THEN Err("timeout") ELSE Err("network"))
    /\ UNCHANGED <<clock, config, managerLog, besideClient>>

\* The timer of executeWithTimeout fires while the wrapped call is pending:
\* controller.abort() on a controller whose signal nothing was given.
TimeoutElapses ==
    /\ request.pc = "calling"
    /\ ~request.timerFired
    /\ request' = [request EXCEPT !.timerFired = TRUE]
    /\ UNCHANGED <<clock, config, fnLog, managerLog, besideClient>>

\* The backoff delay is over: executeWithRetry(fn, token, attempt + 1, ...)
DelayElapses ==
    /\ request.pc = "delaying"
    /\ Invoke(request.token, request.attempt + 1, request.canRefreshToken)
    /\ UNCHANGED <<clock, config, managerLog, besideClient>>

\* The caller has the result; the client is ready for the next request.
Receive ==
    /\ request.pc = "done"
    /\ request' = NoRequest
    /\ fnLog' = <<>>
    /\ managerLog' = <<>>
    /\ UNCHANGED <<clock, config, besideClient>>

InitClient ==
    /\ config \in {ResolveConfig(mode, n) : mode \in Modes, n \in RetryAttemptsOptions}
    /\ request = NoRequest
    /\ fnLog = <<>>
    /\ managerLog = <<>>
    /\ clock = ClockStart
    /\ ManagerUnused
    /\ TsidUnused
    /\ DtoUnused
    /\ AuthUnused

NextClient ==
    \/ Request
    \/ ProviderResolves
    \/ ProviderRejects
    \/ TokenGranted
    \/ TokenRefreshed
    \/ \E e \in AuthErrors : TokenDenied(e)
    \/ \E response \in Responses : FnResolves(response)
    \/ \E e \in Rejections : FnRejects(e)
    \/ TimeoutElapses
    \/ DelayElapses
    \/ Receive

SpecClient == InitClient /\ [][NextClient]_vars

\* C24: one request() invokes the wrapped call at most retryAttempts + 1
\* times in total, the invocation after a 401 token refresh included.
C24_AtMostRetryAttemptsPlusOne ==
    Len(fnLog) <= config.retryAttempts + 1

\* The number of refreshToken() calls the request made
Refreshes == Cardinality({k \in 1..Len(managerLog) : managerLog[k] = "refreshToken"})

\* C25: within one request() a 401 triggers a token refresh at most once,
\* only when it answers the first attempt and only in client credentials
\* mode; in user token mode the token manager is never called and a 401
\* ends the request with an error without another invocation; when the
\* refresh fails the request ends with that authentication error and the
\* wrapped call is not invoked again.
C25_RefreshOnceOnFirst401 ==
    /\ [](/\ Refreshes <= 1
          /\ Refreshes = 1 =>
                /\ config.mode = "clientCredentials"
                /\ fnLog[1].attempt = 0 /\ fnLog[1].status = 401
                /\ \A k \in 2..Len(fnLog) : fnLog[k].token = "t1"
          /\ config.mode = "userToken" =>
                /\ managerLog = <<>>
                /\ \A k \in 1..Len(fnLog) :
                      fnLog[k].status = 401 =>
                          /\ k = Len(fnLog)
                          /\ request.pc = "done"
                          /\ request.result = Err("token_expired")
          /\ (Refreshes = 1 /\ request.pc = "done" /\ request.result.type \in AuthErrors) =>
                Len(fnLog) = 1)
    /\ [][(request.pc = "refreshing" /\ request'.pc # "refreshing") =>
             \/ request'.pc = "done" /\ request'.result.type \in AuthErrors /\ fnLog' = fnLog
             \/ request'.pc = "calling" /\ Len(fnLog') = 2 /\ Refreshes = 1]_vars
    /\ [][Len(managerLog') > Len(managerLog) /\ Len(fnLog) > 0 =>
             /\ Len(fnLog) = 1 /\ request.attempt = 0
             /\ fnLog'[1].status = 401]_vars

\* The first attempt was answered 401, the refresh failed, and the request
\* has ended with the error of the refresh.
C25_Witness ==
    /\ config.mode = "clientCredentials"
    /\ managerLog = <<"getAccessToken", "refreshToken">>
    /\ Len(fnLog) = 1 /\ fnLog[1].status = 401
    /\ request.pc = "done"
    /\ request.result = Err("invalid_credentials")

\* Timers fire and the continuations of settled promises run; nothing makes
\* the wrapped call or the token endpoint answer.
SpecClientLive ==
    /\ SpecClient
    /\ WF_vars(TimeoutElapses)
    /\ WF_vars(DelayElapses)
    /\ WF_vars(Receive)

\* C28: a request whose wrapped call has not completed when the configured
\* timeout elapses ends with an error of type timeout, and does not stay
\* pending until the wrapped call completes.
C28_TimeoutEndsRequest ==
    (request.pc = "calling" /\ request.timerFired)
        ~> (request.pc = "done" /\ request.result = Err("timeout"))

(***************************************************************************)
(* OidcTokenManager (auth.ts)                                              *)
(***************************************************************************)
\* The most token requests sent in one run
MaxFetches == 2

\* The most calls of getAccessToken / refreshToken in one run
MaxAsks == 2

\* By how many milliseconds the clock moves at once
ElapseSteps == {999, 1000}

\* The last reading of the clock in a run: one second after the first
AuthClockEnd == BigAdd(ClockStart, BigOfNat(1000))

\* The configurations a manager is constructed with: with credentials, and
\* with an empty client id
TokenConfigs == {Credentials, [Credentials EXCEPT !.clientId = Str(<<>>)]}

\* What the token endpoint answers: the status, whether the body holds an
\* access_token, and expires_in (seconds)
TokenResponses ==
    { [status |-> 200, access_token |-> TRUE, expires_in |-> 60],
      [status |-> 200, access_token |-> TRUE, expires_in |-> 61],
      [status |-> 200, access_token |-> FALSE, expires_in |-> 0],
      [status |-> 401, access_token |-> FALSE, expires_in |-> 0],
      [status |-> 500, access_token |-> FALSE, expires_in |-> 0] }

\* The 60 s of the validity check, in milliseconds
ExpiryBuffer == BigOfNat(60000)

AuthPending == [kind |-> "none", type |-> "none", token |-> 0]

AuthOk(token) == [kind |-> "ok", type |-> "none", token |-> token]

AuthErr(type) == [kind |-> "err", type |-> type, token |-> 0]

\* The promise rejects instead of resolving to an Err
AuthRejected(type) == [kind |-> "rejected", type |-> type, token |-> 0]

\* hasCredentials()
hasCredentials == Truthy(tokenConfig.clientId) /\ Truthy(tokenConfig.clientSecret)

\* The check without the buffer: this.cachedToken.expiresAt > Date.now()
CachedTokenValid_NoBuffer == cachedToken # Null /\ BigLess(clock, cachedToken.expiresAt)

\* this.cachedToken && this.cachedToken.expiresAt > Date.now() + 60000
CachedTokenValid ==
    cachedToken # Null /\ BigLess(BigAdd(clock, ExpiryBuffer), cachedToken.expiresAt)

\* A fetch whose token request has been sent and which has neither stored
\* its token nor failed
InFlight(f) == f.phase \in {"requested", "reading", "readingError", "readingNoToken"}

\* A call that got its answer at once
Answered(method, result) ==
    Append(asks, [method |-> method, pc |-> "done", fetch |-> 0, starter |-> FALSE,
                  result |-> result])

\* A call that awaits the promise of fetch k, as the call that started it
\* (starter) or as one that found it in refreshPromise
Awaiting(method, k, starter) ==
    Append(asks, [method |-> method, pc |-> "awaiting", fetch |-> k, starter |-> starter,
                  result |-> AuthPending])

\* fetchNewToken(), called by method: without credentials the promise
\* rejects; otherwise the token request is sent, refreshPromise stands for
\* its continuation, and the caller awaits it.
fetchNewToken(method) ==
    IF ~hasCredentials
    THEN /\ asks' = Answered(method, AuthRejected("missing_credentials"))
         /\ UNCHANGED <<refreshPromise, fetches>>
    ELSE /\ Len(fetches) < MaxFetches
         /\ fetches' = Append(fetches, [phase |-> "requested", cleared |-> FALSE,
                                        expires_in |-> 0])
         /\ refreshPromise' = [fetch |-> Len(fetches) + 1]
         /\ asks' = Awaiting(method, Len(fetches) + 1, TRUE)

\* getAccessToken()
getAccessToken ==
    /\ Len(asks) < MaxAsks
    /\ IF CachedTokenValid
       THEN /\ asks' = Answered("getAccessToken", AuthOk(cachedToken.token))
            /\ UNCHANGED <<refreshPromise, fetches>>
       ELSE IF refreshPromise # Null
       THEN /\ asks' = Awaiting("getAccessToken", refreshPromise.fetch, FALSE)
            /\ UNCHANGED <<refreshPromise, fetches>>
       ELSE fetchNewToken("getAccessToken")
    /\ UNCHANGED <<clock, tokenConfig, cachedToken, besideAuth>>

\* refreshToken()
refreshToken ==
    /\ Len(asks) < MaxAsks
    /\ cachedToken' = Null
    /\ fetchNewToken("refreshToken")
    /\ UNCHANGED <<clock, tokenConfig, besideAuth>>

\* clearCache(); the fetches in flight are marked as begun before it
clearCache ==
    /\ cachedToken' = Null
    /\ refreshPromise' = Null
    /\ fetches' = Tuple([k \in 1..Len(fetches) |->
                     IF InFlight(fetches[k]) THEN [fetches[k] EXCEPT !.cleared = TRUE]
                     ELSE fetches[k]])
    /\ UNCHANGED <<clock, tokenConfig, asks, besideAuth>>

\* The promise of fetch k is fulfilled with the token: every call awaiting
\* it gets the token.
ResolveAsks(k) ==
    Tuple([i \in 1..Len(asks) |->
        IF asks[i].fetch = k /\ asks[i].pc = "awaiting"
        THEN [asks[i] EXCEPT !.pc = "done", !.result = AuthOk(k)] ELSE asks[i]])

\* The promise of fetch k rejects with the error e (typed: an authError):
\* the call that started the fetch gets e if it is typed and
\* token_fetch_failed otherwise, a call that joined gets token_fetch_failed.
RejectAsks(k, e, typed) ==
    Tuple([i \in 1..Len(asks) |->
        IF asks[i].fetch = k /\ asks[i].pc = "awaiting"
        THEN [asks[i] EXCEPT !.pc = "done",
                             !.result = IF asks[i].starter /\ typed THEN AuthErr(e)
                                        ELSE AuthErr("token_fetch_failed")]
        ELSE asks[i]])

\* The response of token request k arrives and the continuation runs up to
\* its first await: refreshPromise = null, then 401 / 403 throws, and any
\* other response goes on to read the body.
FetchResponds(k, response) ==
    /\ fetches[k].phase = "requested"
    /\ refreshPromise' = Null
    /\ IF response.status \in {401, 403}
       THEN /\ fetches' = [fetches EXCEPT ![k].phase = "failed"]
            /\ asks' = RejectAsks(k, "invalid_credentials", TRUE)
       ELSE /\ fetches' = [fetches EXCEPT
                  ![k].phase = IF ~ResponseOk(response.status) THEN "readingError"
                               ELSE IF response.access_token THEN "reading"
                               ELSE "readingNoToken",
                  ![k].expires_in = response.expires_in]
            /\ UNCHANGED asks
    /\ UNCHANGED <<clock, tokenConfig, cachedToken, besideAuth>>

\* response.json() of fetch k is done: an error response and a body without
\* access_token throw token_fetch_failed; otherwise the token is cached with
\* expiresAt = Date.now() + expires_in * 1000 and returned.
BodyRead(k) ==
    /\ fetches[k].phase \in {"reading", "readingError", "readingNoToken"}
    /\ IF fetches[k].phase = "reading"
       THEN /\ cachedToken' = [token |-> k,
                               expiresAt |-> BigAdd(clock, BigOfNat(fetches[k].expires_in * 1000))]
            /\ fetches' = [fetches EXCEPT ![k].phase = "stored"]
            /\ asks' = ResolveAsks(k)
       ELSE /\ fetches' = [fetches EXCEPT ![k].phase = "failed"]
            /\ asks' = RejectAsks(k, "token_fetch_failed", TRUE)
            /\ UNCHANGED cachedToken
    /\ UNCHANGED <<clock, tokenConfig, refreshPromise, besideAuth>>

\* fetch() of token request k rejects (no response): the continuation does
\* not run, and the error mapper of the starting call sets refreshPromise
\* to null.
FetchRejects(k) ==
    /\ fetches[k].phase = "requested"
    /\ fetches' = [fetches EXCEPT ![k].phase = "failed"]
    /\ refreshPromise' = Null
    /\ asks' = RejectAsks(k, "token_fetch_failed", FALSE)
    /\ UNCHANGED <<clock, tokenConfig, cachedToken, besideAuth>>

\* Time passes.
Elapse(step) ==
    /\ ~BigLess(AuthClockEnd, BigAdd(clock, BigOfNat(step)))
    /\ clock' = BigAdd(clock, BigOfNat(step))
    /\ UNCHANGED <<authVars, besideAuth>>

InitAuth ==
    /\ tokenConfig \in TokenConfigs
    /\ cachedToken = Null
    /\ refreshPromise = Null
    /\ fetches = <<>>
    /\ asks = <<>>
    /\ clock = ClockStart
    /\ ManagerUnused
    /\ TsidUnused
    /\ DtoUnused
    /\ ClientUnused

NextAuth ==
    \/ getAccessToken
    \/ refreshToken
    \/ clearCache
    \/ \E k \in 1..Len(fetches), response \in TokenResponses : FetchResponds(k, response)
    \/ \E k \in 1..Len(fetches) : BodyRead(k)
    \/ \E k \in 1..Len(fetches) : FetchRejects(k)
    \/ \E step \in ElapseSteps : Elapse(step)

SpecAuth == InitAuth /\ [][NextAuth]_vars

\* The step is a call of the given method
CallOf(method) ==
    /\ Len(asks') = Len(asks) + 1
    /\ asks'[Len(asks')].method = method

\* The call just made was answered with the cached token, and no token
\* request was sent for it
AnsweredFromCache ==
    /\ asks'[Len(asks')].pc = "done"
    /\ asks'[Len(asks')].fetch = 0
    /\ asks'[Len(asks')].result = AuthOk(cachedToken.token)
    /\ fetches' = fetches

\* A token is cached whose expiry is more than 60 s after the current time
FreshTokenCached ==
    cachedToken # Null /\ BigLess(ExpiryBuffer, BigSub(cachedToken.expiresAt, clock))

\* getAccessToken answers from the cache, sending no token request, exactly
\* when a cached token expires more than 60 s from now
CacheAnswersExactlyFresh ==
    [][CallOf("getAccessToken") =>
          /\ FreshTokenCached <=> asks'[Len(asks')].fetch = 0 /\ asks'[Len(asks')].result.kind = "ok"
          /\ FreshTokenCached => AnsweredFromCache]_vars

\* C26 as stated: getAccessToken answers from the cache, without a fetch,
\* exactly when a cached token expires more than 60 s from now, and
\* refreshToken always discards the cached token and starts a fetch.
C26_CacheWhenFreshRefreshFetches ==
    /\ CacheAnswersExactlyFresh
    /\ [][CallOf("refreshToken") =>
             /\ cachedToken' = Null
             /\ Len(fetches') = Len(fetches) + 1]_vars

\* C26, amended: the same of getAccessToken; refreshToken always discards
\* the cached token, and starts a fetch when the client id and the client
\* secret are configured; when one of them is missing it sends no token
\* request and fails with missing_credentials.
C26_CacheWhenFreshRefreshFetchesWithCredentials ==
    /\ CacheAnswersExactlyFresh
    /\ [][CallOf("refreshToken") =>
             /\ cachedToken' = Null
             /\ hasCredentials =>
                   /\ Len(fetches') = Len(fetches) + 1
                   /\ fetches'[Len(fetches')].phase = "requested"
                   /\ asks'[Len(asks')].fetch = Len(fetches')
             /\ ~hasCredentials =>
                   /\ fetches' = fetches
                   /\ asks'[Len(asks')].result.type = "missing_credentials"]_vars

\* A token that expires 61 s after it was stored has answered a
\* getAccessToken call 999 ms later, from the cache.
C26_Witness ==
    /\ cachedToken # Null
    /\ clock = BigAdd(ClockStart, BigOfNat(999))
    /\ cachedToken.expiresAt = BigAdd(ClockStart, BigOfNat(61000))
    /\ Len(asks) = 2
    /\ asks[2].method = "getAccessToken" /\ asks[2].fetch = 0
    /\ asks[2].result = AuthOk(cachedToken.token)

\* The manager used through getAccessToken alone
NextAuthGet ==
    \/ getAccessToken
    \/ \E k \in 1..Len(fetches), response \in TokenResponses : FetchResponds(k, response)
    \/ \E k \in 1..Len(fetches) : BodyRead(k)
    \/ \E k \in 1..Len(fetches) : FetchRejects(k)
    \/ \E step \in ElapseSteps : Elapse(step)

SpecAuthGet == InitAuth /\ [][NextAuthGet]_vars

\* The token requests that have neither stored their token nor failed
Outstanding == {k \in 1..Len(fetches) : InFlight(fetches[k])}

\* C27: while a token acquisition started by getAccessToken has neither
\* stored its token nor failed, every further getAccessToken call awaits
\* that acquisition and receives its outcome, so interleaved getAccessToken
\* calls never have two token requests outstanding at once.
C27_OneAcquisitionAtATime ==
    /\ [](/\ Cardinality(Outstanding) <= 1
          /\ \A i \in 1..Len(asks) :
                (asks[i].pc = "done" /\ asks[i].fetch # 0) =>
                    \/ fetches[asks[i].fetch].phase = "stored"
                         /\ asks[i].result = AuthOk(asks[i].fetch)
                    \/ fetches[asks[i].fetch].phase = "failed"
                         /\ asks[i].result.kind = "err")
    /\ [][(CallOf("getAccessToken") /\ Outstanding # {}) =>
             /\ fetches' = fetches
             /\ asks'[Len(asks')].fetch \in Outstanding]_vars

\* C29: after clearCache() the cache holds no token until a fetch started
\* after that call completes: a fetch in flight when clearCache is called
\* never stores its token, and an older fetch that completes after a newer
\* one never replaces the newer token.
C29_NoStaleTokenStored ==
    /\ [](cachedToken # Null => ~fetches[cachedToken.token].cleared)
    /\ [][(cachedToken # Null /\ cachedToken' # Null) =>
             cachedToken'.token >= cachedToken.token]_vars

====
